---- MODULE Spec2Model ----
(***************************************************************************)
(* Model of app.py (flujo-caja-v2): the bank-statement pipeline            *)
(* (extract_bank_data, process_transactions, validate_balances,            *)
(* load_and_process_bank_statement), the historical loader                 *)
(* (cargar_datos_historicos) and the data-source selection of the script.  *)
(*                                                                         *)
(* Text is a sequence of one-character strings, so that the regular        *)
(* expressions and the number parser of the code work on characters.       *)
(* Amounts are fixed-point integers in units of 1/Scale; a Timestamp is    *)
(* the integer yyyymmdd, NaT is a value below every Timestamp.             *)
(* A DataFrame is [columns, index, rows]: the column labels in order, the  *)
(* row labels in order, and one function column -> value per row.          *)
(***************************************************************************)
EXTENDS Integers, Sequences, FiniteSets, TLC

VARIABLES
    pc,              \* position of the run under the current specification
    raw_df,          \* the caller's raw table object handed to process_transactions
    processed_data,  \* the value process_transactions returned
    discrepancies,   \* the value validate_balances returned
    st_log,          \* st.error / st.warning messages emitted so far
    raw_before,      \* the raw table as it was when process_transactions was called
    raised,          \* the exception that left the operation under study, "none" if none
    df,              \* the table handed to validate_balances
    perturbed,       \* the position of the Saldo changed before validation, 0 if none
    datos_bancarios, \* the snapshot directory: whether it exists, and its files
    combined_df,     \* the value cargar_datos_historicos returned
    session_state,   \* st.session_state: uploaded_file and fuente_datos
    widgets,         \* what the sidebar widgets hold: the uploader's file, the radio's option
    df_dashboard,    \* the dataset of the last run of the script
    tmp_file,        \* the temporary PDF of the last run: "none", "deleted" or "exists"
    session_start,   \* st.session_state as the last run found it at line 431
    df_source,       \* df_dashboard as lines 431-457 of the last run left it
    df_pdf,          \* the table load_and_process_bank_statement returned in the last run
    extracto_mes,    \* the month label it returned
    run_today,       \* datetime.today() of the last run, to the day
    periodo,         \* what the period widgets of the sidebar hold (lines 493-515)
    df_filtrado      \* the rows of df_dashboard the period filter selected

vars == <<pc, raw_df, processed_data, discrepancies, st_log, raw_before, raised,
          df, perturbed, datos_bancarios, combined_df,
          session_state, widgets, df_dashboard, tmp_file,
          session_start, df_source, df_pdf, extracto_mes, run_today,
          periodo, df_filtrado>>

\* the variables of the script run, which the specifications of the single
\* functions leave alone
runVars == <<session_state, widgets, df_dashboard, tmp_file,
             session_start, df_source, df_pdf, extracto_mes, run_today,
             periodo, df_filtrado>>

----------------------------------------------------------------------------
(* Bounds *)

MaxRows == 2

----------------------------------------------------------------------------
(* Values *)

\* resolution of an amount: float cells are kept to two decimals
Scale == 10 * 10

\* abs(calculated - Saldo) > 1
Tolerance == 1

NaT == 0 - 1

Abs(x) == IF x < 0 THEN 0 - x ELSE x

Range(s) == {s[i] : i \in 1..Len(s)}

\* pd.DataFrame()
EmptyDF == [columns |-> << >>, index |-> << >>, rows |-> << >>]

\* DataFrame.empty: no rows or no columns
IsEmpty(t) == Len(t.rows) = 0 \/ Len(t.columns) = 0

HasCol(t, c) == \E i \in 1..Len(t.columns) : t.columns[i] = c

\* the label of column k of a table read from a PDF: camelot numbers the
\* columns 0, 1, 2, ...; a label is kept as the numeral of its number
ColLabel(k) == CASE k = 0 -> "0" [] k = 1 -> "1" [] k = 2 -> "2" [] k = 3 -> "3"
                 [] k = 4 -> "4" [] k = 5 -> "5" [] k = 6 -> "6" [] OTHER -> "7"

----------------------------------------------------------------------------
(* Text: digits, the character filter, substring search *)

Digits == {"0", "1", "2", "3", "4", "5", "6", "7", "8", "9"}

DigitVal(c) ==
    CASE c = "0" -> 0 [] c = "1" -> 1 [] c = "2" -> 2 [] c = "3" -> 3
      [] c = "4" -> 4 [] c = "5" -> 5 [] c = "6" -> 6 [] c = "7" -> 7
      [] c = "8" -> 8 [] c = "9" -> 9

IsDigit(c) == c \in Digits

AllDigits(s) == \A i \in 1..Len(s) : IsDigit(s[i])

\* value of a sequence of digits, most significant first
RECURSIVE DigitsVal(_)
DigitsVal(s) ==
    IF s = << >> THEN 0
    ELSE 10 * DigitsVal(SubSeq(s, 1, Len(s) - 1)) + DigitVal(s[Len(s)])

\* re.search(pat, s) for a literal pattern: pat occurs somewhere in s
Contains(s, pat) ==
    \E i \in 1..(Len(s) - Len(pat) + 1) : SubSeq(s, i, i + Len(pat) - 1) = pat

\* re.search of an alternation of literals
SearchAny(pats, s) == \E p \in pats : Contains(s, p)

----------------------------------------------------------------------------
(* pd.to_datetime(..., dayfirst=True, errors='coerce') on dd/mm/yyyy text *)

IsLeap(y) == (y % 4 = 0 /\ y % 100 # 0) \/ y % 400 = 0

DaysInMonth(y, m) ==
    IF m = 2 THEN (IF IsLeap(y) THEN 29 ELSE 28)
    ELSE IF m \in {4, 6, 9, 11} THEN 30 ELSE 31

to_datetime(s) ==
    IF /\ Len(s) = 10
       /\ s[3] = "/" /\ s[6] = "/"
       /\ AllDigits(SubSeq(s, 1, 2)) /\ AllDigits(SubSeq(s, 4, 5))
       /\ AllDigits(SubSeq(s, 7, 10))
    THEN LET d == DigitsVal(SubSeq(s, 1, 2))
             m == DigitsVal(SubSeq(s, 4, 5))
             y == DigitsVal(SubSeq(s, 7, 10))
         IN  IF m \in 1..12 /\ y >= 1 /\ d >= 1 /\ d <= DaysInMonth(y, m)
             THEN y * 10000 + m * 100 + d
             ELSE NaT
    ELSE NaT

----------------------------------------------------------------------------
(* Currency cells: .str.replace(r"[^\d\-.,]", ""), .str.replace(",", ""),  *)
(* .astype(float)                                                          *)

IsCurrencyChar(c) == IsDigit(c) \/ c \in {"-", ".", ","}

StripCurrency(s) == SelectSeq(s, IsCurrencyChar)

IsNotComma(c) == c # ","

RemoveCommas(s) == SelectSeq(s, IsNotComma)

IsDot(c) == c = "."

IsNotDot(c) == c # "."

\* the characters after an optional leading minus sign
Unsigned(s) == IF s # << >> /\ s[1] = "-" THEN Tail(s) ELSE s

\* position of the first "." of s, Len(s) + 1 when there is none
DotPos(s) ==
    IF \E i \in 1..Len(s) : s[i] = "."
    THEN CHOOSE i \in 1..Len(s) : s[i] = "." /\ \A j \in 1..(i - 1) : s[j] # "."
    ELSE Len(s) + 1

\* float(s) succeeds: [-] digits [. digits] with at least one digit
IsFloat(s) ==
    LET u == Unsigned(s)
    IN  /\ u # << >>
        /\ \A i \in 1..Len(u) : IsDigit(u[i]) \/ u[i] = "."
        /\ Len(SelectSeq(u, IsDot)) <= 1
        /\ \E i \in 1..Len(u) : IsDigit(u[i])

\* float(s) in units of 1/Scale (digits after the second decimal are dropped)
FloatVal(s) ==
    LET u    == Unsigned(s)
        dp   == DotPos(u)
        whole == SubSeq(u, 1, dp - 1)
        frac == SubSeq(u, dp + 1, Len(u))
        f2   == SubSeq(frac \o <<"0", "0">>, 1, 2)
        mag  == DigitsVal(whole) * Scale + DigitsVal(f2)
    IN  IF s # << >> /\ s[1] = "-" THEN 0 - mag ELSE mag

\* the comma read as the decimal mark: dots dropped, the comma made a dot
CleanCurrencyDecimalComma(s) ==
    LET t == SelectSeq(StripCurrency(s), IsNotDot)
    IN  [i \in 1..Len(t) |-> IF t[i] = "," THEN "." ELSE t[i]]

\* the text left of a currency cell before astype(float)
CleanCurrency(s) == RemoveCommas(StripCurrency(s))

----------------------------------------------------------------------------
(* Categories: first pattern of the dict that matches, else "Otros" *)

PatIngresos == {<<"P","A","G","O"," ","I","N","T","E","R","B","A","N","C">>, <<"A","B","O","N","O">>, <<"D","E","P","Ó","S","I","T","O">>, <<"N","Ó","M","I","N","A">>, <<"T","R","A","N","S","F","E","R","E","N","C","I","A"," ","A"," ","F","A","V","O","R">>}

PatEgresos == {<<"I","M","P","U","E","S","T","O">>, <<"C","O","M","I","S","I","Ó","N">>, <<"R","E","T","I","R","O">>, <<"P","A","G","O"," ","A"," ","P","R","O","V","E">>, <<"T","R","A","N","S","F","E","R","E","N","C","I","A">>}

PatServicios == {<<"C","U","O","T","A"," ","M","A","N","E","J","O">>, <<"S","E","G","U","R","O","S">>, <<"T","A","R","J","E","T","A">>, <<"A","G","U","A">>, <<"L","U","Z">>, <<"G","A","S">>}

\* the dict with Egresos declared before Ingresos
patterns_egresos_first ==
    << [k |-> "Egresos", v |-> PatEgresos],
       [k |-> "Ingresos", v |-> PatIngresos],
       [k |-> "Servicios", v |-> PatServicios] >>

\* the dict, in insertion order
patterns ==
    << [k |-> "Ingresos", v |-> PatIngresos],
       [k |-> "Egresos", v |-> PatEgresos],
       [k |-> "Servicios", v |-> PatServicios] >>

\* next((k for k, v in patterns.items() if re.search(v, str(x))), "Otros")
Categoria(x) ==
    IF \E i \in 1..Len(patterns) : SearchAny(patterns[i].v, x)
    THEN patterns[CHOOSE i \in 1..Len(patterns) :
                     /\ SearchAny(patterns[i].v, x)
                     /\ \A j \in 1..(i - 1) : ~SearchAny(patterns[j].v, x)].k
    ELSE "Otros"

----------------------------------------------------------------------------
(* DataFrame operations *)

\* the rows (and labels) of t at the positions ks, in that order
Take(t, ks) ==
    [columns |-> t.columns,
     index   |-> [i \in 1..Len(ks) |-> t.index[ks[i]]],
     rows    |-> [i \in 1..Len(ks) |-> t.rows[ks[i]]]]

\* the positions at which the boolean sequence mask is TRUE, ascending
RECURSIVE Positions(_)
Positions(mask) ==
    IF mask = << >> THEN << >>
    ELSE LET front == Positions(SubSeq(mask, 1, Len(mask) - 1))
         IN  IF mask[Len(mask)] THEN Append(front, Len(mask)) ELSE front

\* df[mask]
Filter(t, mask) == Take(t, Positions(mask))

\* the column col of t, as a sequence
Column(t, col) == [i \in 1..Len(t.rows) |-> t.rows[i][col]]

\* a < b in the order of sort_values: NaT (na_position='last') after every date
DateLeq(a, b) == b = NaT \/ (a # NaT /\ a <= b)

\* the Fecha of a row; a cell the row lacks is NaT
FechaOf(row) == IF "Fecha" \in DOMAIN row THEN row["Fecha"] ELSE NaT

\* the orders of the positions S in which no later row has an earlier date
RECURSIVE SortedOrders(_, _)
SortedOrders(t, S) ==
    IF S = {} THEN {<< >>}
    ELSE UNION {{<<m>> \o o : o \in SortedOrders(t, S \ {m})} :
                  m \in {x \in S : \A y \in S :
                             DateLeq(FechaOf(t.rows[x]), FechaOf(t.rows[y]))}}

\* the dates of t ascend strictly from row to row
StrictlyAscending(t) ==
    \A i \in 1..(Len(t.rows) - 1) :
        /\ FechaOf(t.rows[i]) # NaT
        /\ FechaOf(t.rows[i + 1]) # NaT
        /\ FechaOf(t.rows[i]) < FechaOf(t.rows[i + 1])

\* the orders sort_values("Fecha") may produce: quicksort is not stable, so
\* rows of equal date may come out in any order (a table whose dates ascend
\* strictly has one order, the one it is in)
SortedPerms(t) ==
    IF StrictlyAscending(t) THEN {[i \in 1..Len(t.rows) |-> i]}
    ELSE SortedOrders(t, 1..Len(t.rows))

\* the sort left out: the rows stay in the order of the statement
sort_values_omitted(t, p) == t

\* df.sort_values("Fecha"), p the order the sort produced
sort_values(t, p) == Take(t, p)

\* df[col] = vals; a new column goes last
Assign(t, col, vals) ==
    [columns |-> IF HasCol(t, col) THEN t.columns ELSE Append(t.columns, col),
     index   |-> t.index,
     rows    |-> [i \in 1..Len(t.rows) |->
                    [c \in (DOMAIN t.rows[i]) \cup {col} |->
                        IF c = col THEN vals[i] ELSE t.rows[i][c]]]]

\* df[col].cumsum() at position i
RECURSIVE CumSum(_, _, _)
CumSum(t, col, i) ==
    IF i = 0 THEN 0 ELSE CumSum(t, col, i - 1) + t.rows[i][col]

----------------------------------------------------------------------------
(* process_transactions *)

Cols6 == <<"Fecha", "Descripción", "Sucursal", "Doc", "Valor", "Saldo">>

\* the failure reported with st.warning instead of st.error
ErrProcessAsWarning == [sev |-> "warning", fn |-> "process_transactions"]

\* st.error(f"Error al procesar las transacciones: ...")
ErrProcess == [sev |-> "error", fn |-> "process_transactions"]

\* raw_df.columns = [...]: the six names replace the labels positionally
Rename(raw) ==
    [columns |-> Cols6,
     index   |-> raw.index,
     rows    |-> [i \in 1..Len(raw.rows) |->
                    [c \in Range(Cols6) |->
                        raw.rows[i][raw.columns[CHOOSE k \in 1..Len(Cols6) : Cols6[k] = c]]]]]

\* pd.to_datetime(raw_df["Fecha"], dayfirst=True, errors='coerce')
FechaColumn(t) == [i \in 1..Len(t.rows) |-> to_datetime(t.rows[i]["Fecha"])]

\* dropna left out: the rows without a date stay in the table
dropna_omitted(t) == t

\* raw_df.dropna(subset=["Fecha"])
dropna(t) == Filter(t, [i \in 1..Len(t.rows) |-> t.rows[i]["Fecha"] # NaT])

\* some cell of the column does not convert with astype(float)
ConversionFails(t, col) ==
    \E i \in 1..Len(t.rows) : ~IsFloat(CleanCurrency(t.rows[i][col]))

\* one of the two astype(float) of the loop of lines 47-48 raises
AnyConversionFails(t) == ConversionFails(t, "Valor") \/ ConversionFails(t, "Saldo")

\* the currency column col after lines 47-48
CurrencyColumn(t, col) ==
    [i \in 1..Len(t.rows) |-> FloatVal(CleanCurrency(t.rows[i][col]))]

CategoriaColumn(t) == [i \in 1..Len(t.rows) |-> Categoria(t.rows[i]["Descripción"])]

\* np.where(Valor > 0, Valor, 0)
IngresosColumn(t) ==
    [i \in 1..Len(t.rows) |->
        IF t.rows[i]["Valor"] > 0 THEN t.rows[i]["Valor"] ELSE 0]

\* np.where(Valor < 0, abs(Valor), 0)
EgresosColumn(t) ==
    [i \in 1..Len(t.rows) |->
        IF t.rows[i]["Valor"] < 0 THEN Abs(t.rows[i]["Valor"]) ELSE 0]

\* line 41: raw_df["Fecha"] = pd.to_datetime(...)
to_datetime_column(t) == Assign(t, "Fecha", FechaColumn(t))

\* lines 40-42: the statements that act on the caller's object
Dated(raw) == to_datetime_column(Rename(raw))

\* lines 47-48: df[col] = df[col].apply(clean_currency).astype(float)
astype_float(t, col) == Assign(t, col, CurrencyColumn(t, col))

\* line 56
AssignCategoria(t) == Assign(t, "Categoría", CategoriaColumn(t))

\* line 57
AssignIngresos(t) == Assign(t, "Ingresos", IngresosColumn(t))

\* line 58
AssignEgresos(t) == Assign(t, "Egresos", EgresosColumn(t))

\* line 59
AssignFlujoNeto(t) == Assign(t, "Flujo Neto", Column(t, "Valor"))

\* line 61
AssignSaldoAcumulado(t) == Assign(t, "Saldo Acumulado", Column(t, "Saldo"))

\* lines 43-60: the table just before sort_values
BeforeSort(raw) ==
    AssignFlujoNeto(AssignEgresos(AssignIngresos(AssignCategoria(
        astype_float(astype_float(dropna(Dated(raw)), "Valor"), "Saldo")))))

\* lines 61-62
SortAndSaldo(t, p) == AssignSaldoAcumulado(sort_values(t, p))

\* the column assignment of line 40 raises ValueError
ColumnMismatch(raw) == Len(raw.columns) # Len(Cols6)

\* the currency cells converted before the rows without a date are dropped
CurrencyFailsBeforeFilter(raw) == AnyConversionFails(Dated(raw))

\* one of the astype(float) of line 48 raises ValueError
CurrencyFails(raw) == AnyConversionFails(dropna(Dated(raw)))

\* the try block of process_transactions reaches sort_values
ReachesSort(raw) == ~IsEmpty(raw) /\ ~ColumnMismatch(raw) /\ ~CurrencyFails(raw)

SortChoices(raw) == IF ReachesSort(raw) THEN SortedPerms(BeforeSort(raw)) ELSE {<< >>}

\* ret: the value returned; log: the messages emitted; raw: the caller's
\* table object after the call; exc: the exception that leaves the call (every
\* exception of the try block is caught by "except Exception")
process_transactions(raw, p) ==
    IF IsEmpty(raw)
    THEN [ret |-> EmptyDF, log |-> << >>, raw |-> raw, exc |-> "none"]
    ELSE IF ColumnMismatch(raw)
    THEN [ret |-> EmptyDF, log |-> <<ErrProcess>>, raw |-> raw, exc |-> "none"]
    ELSE IF CurrencyFails(raw)
    THEN [ret |-> EmptyDF, log |-> <<ErrProcess>>, raw |-> Dated(raw), exc |-> "none"]
    ELSE [ret |-> SortAndSaldo(BeforeSort(raw), p),
          log |-> << >>,
          raw |-> Dated(raw),
          exc |-> "none"]

----------------------------------------------------------------------------
(* validate_balances *)

\* the running balance anchored on the first movement instead of the first balance
CalculatedUnanchored(t, i) == CumSum(t, "Valor", i)

\* calculated = Valor.cumsum() + Saldo.iloc[0] - Valor.iloc[0], at position i
Calculated(t, i) ==
    CumSum(t, "Valor", i) + t.rows[1]["Saldo"] - t.rows[1]["Valor"]

\* the comparison written >= 1
IsDiscrepancyInclusive(t, i) ==
    Abs(Calculated(t, i) - t.rows[i]["Saldo"]) >= Tolerance * Scale

\* abs(calculated - df["Saldo"]) > 1, at position i
IsDiscrepancy(t, i) == Abs(Calculated(t, i) - t.rows[i]["Saldo"]) > Tolerance * Scale

validate_balances(t) ==
    IF IsEmpty(t) \/ ~HasCol(t, "Valor") \/ ~HasCol(t, "Saldo")
    THEN EmptyDF
    ELSE Filter(t, [i \in 1..Len(t.rows) |-> IsDiscrepancy(t, i)])

----------------------------------------------------------------------------
(* cargar_datos_historicos *)

\* os.path.exists("datos_bancarios") is False
NoDirectory == [exists |-> FALSE, files |-> << >>]

\* pd.to_datetime on the yyyy-mm-dd text of a snapshot; "raise" when the text
\* is no date (errors='raise' is the default)
to_datetime_iso(s) ==
    IF /\ Len(s) = 10
       /\ s[5] = "-" /\ s[8] = "-"
       /\ AllDigits(SubSeq(s, 1, 4)) /\ AllDigits(SubSeq(s, 6, 7))
       /\ AllDigits(SubSeq(s, 9, 10))
    THEN LET y == DigitsVal(SubSeq(s, 1, 4))
             m == DigitsVal(SubSeq(s, 6, 7))
             d == DigitsVal(SubSeq(s, 9, 10))
         IN  IF m \in 1..12 /\ y >= 1 /\ d >= 1 /\ d <= DaysInMonth(y, m)
             THEN y * 10000 + m * 100 + d
             ELSE NaT
    ELSE NaT

\* a cell of row; None stands for a cell the row lacks (NaN)
HasCell(row, c) == c \in DOMAIN row

\* pd.read_csv(filename) raises, or the date conversion of line 114 raises
FileFails(f) ==
    \/ ~f.readable
    \/ /\ HasCol(f, "Fecha")
       /\ \E i \in 1..Len(f.rows) :
             HasCell(f.rows[i], "Fecha") /\ to_datetime_iso(f.rows[i]["Fecha"]) = NaT

\* lines 112-114: the table of one snapshot, its Fecha column converted
ReadFile(f) ==
    [columns |-> f.columns,
     rows    |-> [i \in 1..Len(f.rows) |->
                    [c \in DOMAIN f.rows[i] |->
                        IF c = "Fecha" THEN to_datetime_iso(f.rows[i][c])
                        ELSE f.rows[i][c]]]]

WarnFile(f) == [sev |-> "warning", fn |-> "cargar_datos_historicos", file |-> f.name]

\* os.listdir filtered by f.endswith('.csv')
CsvFiles(dir) == SelectSeq(dir.files, LAMBDA f : f.csv)

\* all_dfs after the loop over files
RECURSIVE AllDfs(_)
AllDfs(files) ==
    IF files = << >> THEN << >>
    ELSE IF FileFails(Head(files)) THEN AllDfs(Tail(files))
         ELSE <<ReadFile(Head(files))>> \o AllDfs(Tail(files))

\* the warnings of the loop over files
RECURSIVE LoadWarnings(_)
LoadWarnings(files) ==
    IF files = << >> THEN << >>
    ELSE IF FileFails(Head(files)) THEN <<WarnFile(Head(files))>> \o LoadWarnings(Tail(files))
         ELSE LoadWarnings(Tail(files))

\* cols followed by the labels of more that cols lacks, in order
RECURSIVE UnionColumns(_, _)
UnionColumns(cols, more) ==
    IF more = << >> THEN cols
    ELSE UnionColumns(IF Head(more) \in Range(cols) THEN cols ELSE Append(cols, Head(more)),
                      Tail(more))

RECURSIVE ConcatColumns(_)
ConcatColumns(dfs) ==
    IF dfs = << >> THEN << >>
    ELSE UnionColumns(ConcatColumns(SubSeq(dfs, 1, Len(dfs) - 1)), dfs[Len(dfs)].columns)

RECURSIVE ConcatRows(_)
ConcatRows(dfs) ==
    IF dfs = << >> THEN << >> ELSE Head(dfs).rows \o ConcatRows(Tail(dfs))

\* pd.concat(all_dfs, ignore_index=True): a cell of a column its file lacks is NaN
concat(dfs) ==
    [columns |-> ConcatColumns(dfs),
     index   |-> [i \in 1..Len(ConcatRows(dfs)) |-> i - 1],
     rows    |-> ConcatRows(dfs)]

DedupSubset == <<"Fecha", "Valor", "Descripción">>

\* the cells of a row in the columns of the subset (NaN cells compare equal)
DedupKey(row) == [c \in Range(DedupSubset) \cap DOMAIN row |-> row[c]]

\* every duplicate kept, the first one included
drop_duplicates_keep_all(t) == t

\* drop_duplicates(subset=[...]): a row stays when no earlier row has its key
drop_duplicates(t) ==
    Filter(t, [i \in 1..Len(t.rows) |->
                  \A j \in 1..(i - 1) : DedupKey(t.rows[j]) # DedupKey(t.rows[i])])

\* drop_duplicates raises KeyError: a column of the subset is in no file read
SubsetMissing(t) == \E k \in 1..Len(DedupSubset) : ~HasCol(t, DedupSubset[k])

\* lines 118-119 are reached and line 120 does not raise
ReachesHistSort(dir) ==
    /\ dir.exists
    /\ AllDfs(CsvFiles(dir)) # << >>
    /\ ~SubsetMissing(concat(AllDfs(CsvFiles(dir))))

HistSortChoices(dir) ==
    IF ReachesHistSort(dir)
    THEN SortedPerms(drop_duplicates(concat(AllDfs(CsvFiles(dir)))))
    ELSE {<< >>}

\* lines 117-123: what follows the loop over files; all_dfs and log are the
\* tables and the warnings the loop leaves
CombineSnapshots(all_dfs, log, p) ==
    IF all_dfs = << >>
    THEN [ret |-> EmptyDF, log |-> log, exc |-> "none"]
    ELSE IF SubsetMissing(concat(all_dfs))
    THEN [ret |-> EmptyDF, log |-> log, exc |-> "KeyError"]
    ELSE [ret |-> sort_values(drop_duplicates(concat(all_dfs)), p),
          log |-> log,
          exc |-> "none"]

\* ret: the value returned; log: the warnings; exc: the exception that leaves
\* the call (lines 118-122 are outside every try block)
cargar_datos_historicos(dir, p) ==
    IF ~dir.exists
    THEN [ret |-> EmptyDF, log |-> << >>, exc |-> "none"]
    ELSE IF CsvFiles(dir) = << >>
    THEN [ret |-> EmptyDF, log |-> << >>, exc |-> "none"]
    ELSE CombineSnapshots(AllDfs(CsvFiles(dir)), LoadWarnings(CsvFiles(dir)), p)

----------------------------------------------------------------------------
(* Calendar: Timestamps are yyyymmdd integers *)

YearOf(ts) == ts \div 10000
MonthOf(ts) == (ts \div 100) % 100
DayOf(ts) == ts % 100

\* days of the year y before its month m
DaysBeforeMonth(y, m) ==
    <<0, 31, 59, 90, 120, 151, 181, 212, 243, 273, 304, 334>>[m]
    + (IF m > 2 /\ IsLeap(y) THEN 1 ELSE 0)

\* days before the first day of the year y
DaysBeforeYear(y) ==
    365 * (y - 1) + ((y - 1) \div 4) - ((y - 1) \div 100) + ((y - 1) \div 400)

\* the number of the day ts, counting the days of the calendar
Ordinal(ts) == DaysBeforeYear(YearOf(ts)) + DaysBeforeMonth(YearOf(ts), MonthOf(ts)) + DayOf(ts)

\* the day whose number is n
FromOrdinal(n) ==
    LET y == CHOOSE yy \in (n \div 366)..((n \div 365) + 1) :
                 DaysBeforeYear(yy) < n /\ n <= DaysBeforeYear(yy + 1)
        r == n - DaysBeforeYear(y)
        m == CHOOSE mm \in 1..12 :
                 DaysBeforeMonth(y, mm) < r /\ r <= DaysBeforeMonth(y, mm) + DaysInMonth(y, mm)
    IN  y * 10000 + m * 100 + (r - DaysBeforeMonth(y, m))

\* ts - timedelta(days=n)
MinusDays(ts, n) == FromOrdinal(Ordinal(ts) - n)

\* pd.date_range(start, periods=n): n consecutive days from start
date_range(start, n) ==
    [i \in 1..n |-> FromOrdinal(Ordinal(start) + i - 1)]

\* pd.date_range(start, end, freq="D"): the days from start to end, ascending
date_range_to(start, end) == date_range(start, Ordinal(end) - Ordinal(start) + 1)

DigitChar(n) ==
    CASE n = 0 -> "0" [] n = 1 -> "1" [] n = 2 -> "2" [] n = 3 -> "3" [] n = 4 -> "4"
      [] n = 5 -> "5" [] n = 6 -> "6" [] n = 7 -> "7" [] n = 8 -> "8" [] n = 9 -> "9"

\* n written with w digits, zero-padded
RECURSIVE Padded(_, _)
Padded(n, w) == IF w = 0 THEN << >> ELSE Append(Padded(n \div 10, w - 1), DigitChar(n % 10))

\* strftime("%Y-%m-%d")
strftime_iso(ts) ==
    Padded(YearOf(ts), 4) \o <<"-">> \o Padded(MonthOf(ts), 2) \o <<"-">> \o Padded(DayOf(ts), 2)

\* strftime("%B %Y"): the month and the year of the label
strftime_month(ts) == [month |-> MonthOf(ts), year |-> YearOf(ts)]

----------------------------------------------------------------------------
(* extract_bank_data and load_and_process_bank_statement *)

\* st.session_state['uploaded_file'] before any upload
None == [kind |-> "None"]

ErrNoTables == [sev |-> "error", fn |-> "extract_bank_data", what |-> "no tables"]
ErrPdf == [sev |-> "error", fn |-> "extract_bank_data", what |-> "exception"]
ErrNoValid == [sev |-> "error", fn |-> "load_and_process_bank_statement", what |-> "no valid data"]
ErrStatement == [sev |-> "error", fn |-> "load_and_process_bank_statement", what |-> "exception"]
WarnDiscrepancies(n) ==
    [sev |-> "warning", fn |-> "load_and_process_bank_statement", count |-> n]

RECURSIVE ConcatIndex(_)
ConcatIndex(dfs) ==
    IF dfs = << >> THEN << >> ELSE Head(dfs).index \o ConcatIndex(Tail(dfs))

\* pd.concat([table.df for table in tables]): every table keeps its row labels
concat_tables(tables) ==
    [columns |-> ConcatColumns(tables),
     index   |-> ConcatIndex(tables),
     rows    |-> ConcatRows(tables)]

\* full_df[~full_df[0].str.contains("FECHA|DESCRIPCIÓN", na=False)]
DropHeaderRows(t) ==
    Filter(t, [i \in 1..Len(t.rows) |->
                  ~SearchAny({<<"F","E","C","H","A">>, <<"D","E","S","C","R","I","P","C","I","Ó","N">>}, t.rows[i][ColLabel(0)])])

\* full_df[0] raises KeyError: the concatenated table has no column 0
NoFirstColumn(t) == ~HasCol(t, ColLabel(0))

\* pdf: the uploaded file (corrupt: camelot.read_pdf raises; tables: what it
\* detects); env.camelot: "ok" or "raise", the outcome of "import camelot".
\* exc: the exception that leaves the call (the import is outside the try)
extract_bank_data(pdf, env) ==
    IF env.camelot = "raise"
    THEN [ret |-> EmptyDF, log |-> << >>, exc |-> "ImportError"]
    ELSE IF pdf.corrupt
    THEN [ret |-> EmptyDF, log |-> <<ErrPdf>>, exc |-> "none"]
    ELSE IF Len(pdf.tables) = 0
    THEN [ret |-> EmptyDF, log |-> <<ErrNoTables>>, exc |-> "none"]
    ELSE IF NoFirstColumn(concat_tables(pdf.tables))
    THEN [ret |-> EmptyDF, log |-> <<ErrPdf>>, exc |-> "none"]
    ELSE [ret |-> DropHeaderRows(concat_tables(pdf.tables)), log |-> << >>, exc |-> "none"]

\* the sort orders open to process_transactions inside the call
LoadSortChoices(uploaded_file, env) ==
    IF uploaded_file = None \/ env.write = "raise" \/ env.camelot = "raise"
    THEN {<< >>}
    ELSE SortChoices(extract_bank_data(uploaded_file, env).ret)

\* lines 87-89: the warning, when validate_balances returned rows
DiscrepancyWarning(found) ==
    IF ~IsEmpty(found) THEN <<WarnDiscrepancies(Len(found.rows))>> ELSE << >>

\* lines 84-93 with the rows validate_balances reports removed from the table
Finish_without_discrepancies(processed, log) ==
    [ret |-> Filter(Assign(processed, "FechaStr",
                           [i \in 1..Len(processed.rows) |->
                               strftime_iso(processed.rows[i]["Fecha"])]),
                    [i \in 1..Len(processed.rows) |-> ~IsDiscrepancy(processed, i)]),
     mes |-> strftime_month(processed.rows[1]["Fecha"]),
     log |-> log \o DiscrepancyWarning(validate_balances(processed)),
     created |-> TRUE,
     tmp_exists |-> FALSE]

\* lines 84-93: the branch taken when processed_data is not empty
Finish(processed, log) ==
    [ret |-> Assign(processed, "FechaStr",
                    [i \in 1..Len(processed.rows) |->
                        strftime_iso(processed.rows[i]["Fecha"])]),
     mes |-> strftime_month(processed.rows[1]["Fecha"]),
     log |-> log \o DiscrepancyWarning(validate_balances(processed)),
     created |-> TRUE,
     tmp_exists |-> FALSE]

NoMes == [month |-> 0, year |-> 0]

\* lines 84-96: what follows process_transactions; x, r: what extract_bank_data
\* and process_transactions returned. os.unlink (line 83) has run
Processed(x, r) ==
    IF ~IsEmpty(r.ret)
    THEN Finish(r.ret, x.log \o r.log)
    ELSE [ret |-> EmptyDF, mes |-> NoMes, log |-> x.log \o r.log \o <<ErrNoValid>>,
          created |-> TRUE, tmp_exists |-> FALSE]

\* lines 81-99: what follows extract_bank_data; an exception that leaves it
\* reaches the except branch of line 97 before line 83
Extracted(x, p) ==
    IF x.exc # "none"
    THEN [ret |-> EmptyDF, mes |-> NoMes, log |-> x.log \o <<ErrStatement>>,
          created |-> TRUE, tmp_exists |-> TRUE]
    ELSE Processed(x, process_transactions(x.ret, p))

\* ret, mes: the pair returned; log: the messages; created: the temporary
\* file was created; tmp_exists: it still exists when the call returns.
\* env.write: "ok" or "raise", the outcome of tmp_file.write(...)
load_and_process_bank_statement(uploaded_file, env, p) ==
    IF uploaded_file = None
    THEN [ret |-> EmptyDF, mes |-> NoMes, log |-> << >>, created |-> FALSE,
          tmp_exists |-> FALSE]
    ELSE IF env.write = "raise"
    THEN [ret |-> EmptyDF, mes |-> NoMes, log |-> <<ErrStatement>>, created |-> TRUE,
          tmp_exists |-> TRUE]
    ELSE Extracted(extract_bank_data(uploaded_file, env), p)

----------------------------------------------------------------------------
(* The data sources of the script and its session *)

Fuentes == {"Histórico", "Simulado", "Nuevo extracto PDF", "Datos de prueba 2024"}

\* lines 425-428: the session of a script that has not run yet
SessionDefaults == [uploaded_file |-> None, fuente_datos |-> "Histórico"]

\* the widgets before any interaction: no file, the radio at index 0
WidgetDefaults == [uploaded_file |-> None, fuente_datos |-> "Histórico"]

\* None in a selection of the period widgets
Unselected == "None"

\* the period widgets before the sidebar has been drawn
NoPeriodo ==
    [periodo_opcion |-> "None", mes_seleccionado |-> Unselected,
     trimestre_seleccionado |-> Unselected, semestre_seleccionado |-> Unselected,
     anio_seleccionado |-> 0]

\* the script has not run
RunIdle ==
    /\ session_state = SessionDefaults
    /\ widgets = WidgetDefaults
    /\ df_dashboard = EmptyDF
    /\ tmp_file = "none"
    /\ session_start = SessionDefaults
    /\ df_source = EmptyDF
    /\ df_pdf = EmptyDF
    /\ extracto_mes = NoMes
    /\ run_today = 0
    /\ periodo = NoPeriodo
    /\ df_filtrado = EmptyDF

----------------------------------------------------------------------------
(* Synthetic data: generar_datos and generar_datos_2024 *)

\* timedelta(days=30)
DaysBack == 30

\* periods=30, size=30
Periods == 30

\* xs[a] + ... + xs[b]
RECURSIVE SumRange(_, _, _)
SumRange(xs, a, b) ==
    IF a > b THEN 0
    ELSE IF a = b THEN xs[a]
    ELSE LET mid == (a + b) \div 2
         IN  SumRange(xs, a, mid) + SumRange(xs, mid + 1, b)

\* xs.cumsum(): the running sums of a sequence of amounts
cumsum(xs) == [i \in 1..Len(xs) |-> SumRange(xs, 1, i)]

\* the table of lines 131-137 / 447-453 from the dates and the two samples
SyntheticTable(fechas, ingresos, egresos) ==
    [columns |-> <<"Fecha", "Ingresos", "Egresos", "Flujo Neto", "Saldo Acumulado">>,
     index   |-> [i \in 1..Len(fechas) |-> i - 1],
     rows    |-> [i \in 1..Len(fechas) |->
                    [c \in {"Fecha", "Ingresos", "Egresos", "Flujo Neto", "Saldo Acumulado"} |->
                        CASE c = "Fecha" -> fechas[i]
                          [] c = "Ingresos" -> ingresos[i]
                          [] c = "Egresos" -> egresos[i]
                          [] c = "Flujo Neto" -> ingresos[i] - egresos[i]
                          [] OTHER -> cumsum([j \in 1..i |-> ingresos[j] - egresos[j]])[i]]]]

\* two outcomes of the unseeded generator: np.random.uniform(200, 1500) and
\* np.random.uniform(100, 1200), rounded to 2 decimals, in units of 1/Scale
RandomDraws ==
    {[ingresos |-> [i \in 1..Periods |-> 200 * Scale],
      egresos  |-> [i \in 1..Periods |-> 1200 * Scale]],
     [ingresos |-> [i \in 1..Periods |-> 200 * Scale + ((i * 7919) % 130000)],
      egresos  |-> [i \in 1..Periods |-> 100 * Scale + ((i * 104729) % 110000)]]}

\* today: datetime.today(), to the day; draw: what the generator samples
generar_datos(today, draw) ==
    SyntheticTable(date_range(MinusDays(today, DaysBack), Periods),
                   draw.ingresos, draw.egresos)

\* the stream of np.random.seed(42): one fixed sequence, the same in every
\* run; uniform(500, 2000) and uniform(300, 1800), in units of 1/Scale
Seeded42 ==
    [ingresos |-> [i \in 1..366 |-> 500 * Scale + ((i * 7919) % 150000)],
     egresos  |-> [i \in 1..366 |-> 300 * Scale + ((i * 104729) % 150000)]]

generar_datos_2024 ==
    LET fechas == date_range_to(20240101, 20241231)
    IN  SyntheticTable(fechas, SubSeq(Seeded42.ingresos, 1, Len(fechas)),
                       SubSeq(Seeded42.egresos, 1, Len(fechas)))

----------------------------------------------------------------------------
(* The run of the script: lines 425-492 *)

columnas_requeridas == <<"Fecha", "Ingresos", "Egresos", "Flujo Neto", "Saldo Acumulado">>

\* pd.to_datetime(0): the value a Fecha column filled with 0 converts to
Epoch == 19700101

\* the loop of lines 461-463 left out: the table keeps the columns it has
AddColumns_omitted(t, cols) == t

\* lines 461-465: every required column the table lacks is added, filled with 0
RECURSIVE AddColumns(_, _)
AddColumns(t, cols) ==
    IF cols = << >> THEN t
    ELSE LET c == Head(cols)
             u == IF HasCol(t, c)
                  THEN t
                  ELSE Assign(t, c, [i \in 1..Len(t.rows) |-> IF c = "Fecha" THEN Epoch ELSE 0])
         IN  AddColumns(u, Tail(cols))

\* lines 460-466
Unify(t, p) == sort_values(AddColumns(t, columnas_requeridas), p)

\* lines 433-436: l what load_and_process_bank_statement returned, h what
\* cargar_datos_historicos returns when line 436 calls it
FromStatement(l, h) ==
    IF ~IsEmpty(l.ret)
    THEN [df |-> l.ret, log |-> l.log, exc |-> "none", source |-> "pdf",
          called |-> TRUE, created |-> l.created, tmp_exists |-> l.tmp_exists,
          pdf |-> l.ret, mes |-> l.mes, hist |-> EmptyDF]
    ELSE [df |-> h.ret, log |-> l.log \o h.log, exc |-> h.exc, source |-> "historico",
          called |-> TRUE, created |-> l.created, tmp_exists |-> l.tmp_exists,
          pdf |-> l.ret, mes |-> l.mes, hist |-> h.ret]

\* lines 437-438 without the fallback of lines 439-440
FromHistorico_no_fallback(h, env) ==
    [df |-> h.ret, log |-> h.log, exc |-> h.exc, source |-> "historico",
     called |-> FALSE, created |-> FALSE, tmp_exists |-> FALSE,
     pdf |-> EmptyDF, mes |-> NoMes, hist |-> h.ret]

\* lines 437-440: h what cargar_datos_historicos returned
FromHistorico(h, env) ==
    IF h.exc = "none" /\ IsEmpty(h.ret)
    THEN [df |-> generar_datos(env.today, env.draw), log |-> h.log, exc |-> "none",
          source |-> "simulado",
          called |-> FALSE, created |-> FALSE, tmp_exists |-> FALSE,
          pdf |-> EmptyDF, mes |-> NoMes, hist |-> h.ret]
    ELSE [df |-> h.ret, log |-> h.log, exc |-> h.exc, source |-> "historico",
          called |-> FALSE, created |-> FALSE, tmp_exists |-> FALSE,
          pdf |-> EmptyDF, mes |-> NoMes, hist |-> h.ret]

\* the choice of lines 431-457. env: the outcomes of the environment during
\* the run; p, ph: the orders of the sorts inside the statement loader and the
\* historical loader. called: load_and_process_bank_statement was called;
\* pdf, mes: what it returned; hist: what cargar_datos_historicos returned
SelectDataset(ss, dir, env, p, ph) ==
    IF ss.fuente_datos = "Nuevo extracto PDF" /\ ss.uploaded_file # None
    THEN FromStatement(load_and_process_bank_statement(ss.uploaded_file, env, p),
                       cargar_datos_historicos(dir, ph))
    ELSE IF ss.fuente_datos = "Histórico"
    THEN FromHistorico(cargar_datos_historicos(dir, ph), env)
    ELSE IF ss.fuente_datos = "Datos de prueba 2024"
    THEN [df |-> generar_datos_2024, log |-> << >>, exc |-> "none", source |-> "2024",
          called |-> FALSE, created |-> FALSE, tmp_exists |-> FALSE,
          pdf |-> EmptyDF, mes |-> NoMes, hist |-> EmptyDF]
    ELSE [df |-> generar_datos(env.today, env.draw), log |-> << >>, exc |-> "none",
          source |-> "simulado",
          called |-> FALSE, created |-> FALSE, tmp_exists |-> FALSE,
          pdf |-> EmptyDF, mes |-> NoMes, hist |-> EmptyDF]

\* the sidebar with line 486 run unconditionally
Sidebar_overwrite(ss, w) ==
    [uploaded_file |-> w.uploaded_file, fuente_datos |-> w.fuente_datos]

\* lines 484-492: the sidebar stores what the widgets hold
Sidebar(ss, w) ==
    [uploaded_file |-> IF w.uploaded_file # None THEN w.uploaded_file ELSE ss.uploaded_file,
     fuente_datos  |-> w.fuente_datos]

----------------------------------------------------------------------------
(* The period filter: lines 493-515 and 526-546 *)

meses ==
    <<"Enero", "Febrero", "Marzo", "Abril", "Mayo", "Junio",
      "Julio", "Agosto", "Septiembre", "Octubre", "Noviembre", "Diciembre">>

trimestres == <<"1er Trimestre", "2do Trimestre", "3er Trimestre", "4to Trimestre">>

semestres == <<"1er Semestre", "2do Semestre">>

\* the map with the second quarter starting in March
trimestre_map_overlap ==
    [q \in Range(trimestres) |->
        CASE q = "1er Trimestre" -> {1, 2, 3}
          [] q = "2do Trimestre" -> {3, 4, 5, 6}
          [] q = "3er Trimestre" -> {7, 8, 9}
          [] OTHER -> {10, 11, 12}]

\* lines 530-535
trimestre_map ==
    [q \in Range(trimestres) |->
        CASE q = "1er Trimestre" -> {1, 2, 3}
          [] q = "2do Trimestre" -> {4, 5, 6}
          [] q = "3er Trimestre" -> {7, 8, 9}
          [] OTHER -> {10, 11, 12}]

\* lines 539-542
semestre_map ==
    [h \in Range(semestres) |->
        IF h = "1er Semestre" THEN {1, 2, 3, 4, 5, 6} ELSE {7, 8, 9, 10, 11, 12}]

\* meses.index(mes_seleccionado) + 1
mes_idx(mes) == CHOOSE k \in 1..Len(meses) : meses[k] = mes

\* the months the widgets w select, all twelve for "Año completo"
MonthsOf(w) ==
    IF w.periodo_opcion = "Mes" /\ w.mes_seleccionado # Unselected
    THEN {mes_idx(w.mes_seleccionado)}
    ELSE IF w.periodo_opcion = "Trimestre" /\ w.trimestre_seleccionado # Unselected
    THEN trimestre_map[w.trimestre_seleccionado]
    ELSE IF w.periodo_opcion = "Semestre" /\ w.semestre_seleccionado # Unselected
    THEN semestre_map[w.semestre_seleccionado]
    ELSE 1..12

\* (Fecha.dt.month in months) & (Fecha.dt.year == anio): False for NaT
PeriodMask(t, months, anio) ==
    [i \in 1..Len(t.rows) |->
        /\ FechaOf(t.rows[i]) # NaT
        /\ MonthOf(FechaOf(t.rows[i])) \in months
        /\ YearOf(FechaOf(t.rows[i])) = anio]

\* lines 526-546: df_filtrado for the period widgets w
Filtrado(t, w) == Filter(t, PeriodMask(t, MonthsOf(w), w.anio_seleccionado))

\* the selections of lines 505-514: one selectbox is drawn, the others are None
PeriodChoices ==
    {[periodo_opcion |-> "Mes", mes_seleccionado |-> meses[k],
      trimestre_seleccionado |-> Unselected, semestre_seleccionado |-> Unselected] :
        k \in 1..Len(meses)}
    \cup {[periodo_opcion |-> "Trimestre", mes_seleccionado |-> Unselected,
           trimestre_seleccionado |-> trimestres[k], semestre_seleccionado |-> Unselected] :
             k \in 1..Len(trimestres)}
    \cup {[periodo_opcion |-> "Semestre", mes_seleccionado |-> Unselected,
           trimestre_seleccionado |-> Unselected, semestre_seleccionado |-> semestres[k]] :
             k \in 1..Len(semestres)}
    \cup {[periodo_opcion |-> "Año completo", mes_seleccionado |-> Unselected,
           trimestre_seleccionado |-> Unselected, semestre_seleccionado |-> Unselected]}

\* the choice c with the year a of line 515
WithAnio(c, a) ==
    [periodo_opcion |-> c.periodo_opcion, mes_seleccionado |-> c.mes_seleccionado,
     trimestre_seleccionado |-> c.trimestre_seleccionado,
     semestre_seleccionado |-> c.semestre_seleccionado, anio_seleccionado |-> a]

\* line 515: [anio_actual-2, anio_actual-1, anio_actual]
Anios(hoy) == (YearOf(hoy) - 2)..YearOf(hoy)

----------------------------------------------------------------------------
(* Raw tables: what extract_bank_data hands to process_transactions *)

\* a row of a camelot table with six columns 0..5
Row6(f, d, v, s) ==
    [c \in {ColLabel(k) : k \in 0..5} |->
        CASE c = ColLabel(0) -> f [] c = ColLabel(1) -> d
          [] c = ColLabel(4) -> v [] c = ColLabel(5) -> s
          [] OTHER -> << >>]

\* the same cells in a table of n columns
Widen(r, n) ==
    [c \in {ColLabel(k) : k \in 0..(n - 1)} |->
        IF c \in DOMAIN r THEN r[c] ELSE << >>]

RawFechas == {<<"0","1","/","0","1","/","2","0","2","4">>, <<"0","2","/","0","1","/","2","0","2","4">>, << >>}

RawValores == {<<"1","0","0",",","0","0">>, <<"-","5","0",",","0","0">>, << >>}

RawDescripciones ==
    {<<"C","O","M","I","S","I","Ó","N"," ","Y">>, <<"T","R","A","N","S","F","E","R","E","N","C","I","A"," ","A"," ","F","A","V","O","R">>, <<"T","R","A","N","S","F","E","R","E","N","C","I","A"," ","B","A","N","C","A","R","I","A">>,
     <<"R","E","T","I","R","O"," ","T","A","R","J","E","T","A">>, <<"P","A","G","O"," ","L","U","Z">>, <<"C","O","M","P","R","A">>, <<"a","b","o","n","o">>}

RawRows6 ==
    {Row6(f, <<"A","B","O","N","O"," ","X">>, v, <<"1",".","0","0","0",",","0","0">>) : f \in RawFechas, v \in RawValores}
    \cup {Row6(<<"0","2","/","0","1","/","2","0","2","4">>, d, <<"-","5","0",",","0","0">>, <<"9","5","0",",","0","0">>) : d \in RawDescripciones}
    \cup {Row6(<<"3","1","/","0","2","/","2","0","2","4">>, <<"A","B","O","N","O"," ","X">>, <<"1","0","0",",","0","0">>, <<"9","5","0",",","0","0">>),
          Row6(<<"0","1","/","0","1","/","2","0","2","4">>, <<"A","B","O","N","O"," ","X">>, <<"1",".","2",".","3">>, <<"9","5","0",",","0","0">>),
          Row6(<<"0","1","/","0","1","/","2","0","2","4">>, <<"A","B","O","N","O"," ","X">>, <<"1","0","0",",","0","0">>, <<"-">>),
          Row6(<<"0","1","/","0","1","/","2","0","2","4">>, <<"C","O","M","P","R","A">>, <<"0",".","0","0">>, <<"1",".","0","0">>),
          Row6(<<"0","2","/","0","1","/","2","0","2","4">>, <<"C","O","M","P","R","A">>, <<"$"," ","1",".","5","0">>, <<"2",".","5","0">>)}

\* the two rows of the end-to-end scenario
ScenarioRow1 == Row6(<<"0","1","/","0","1","/","2","0","2","4">>, <<"A","B","O","N","O"," ","X">>, <<"1","0","0",",","0","0">>, <<"1",".","0","0","0",",","0","0">>)
ScenarioRow2 == Row6(<<"0","2","/","0","1","/","2","0","2","4">>, <<"C","O","M","I","S","I","Ó","N"," ","Y">>, <<"-","5","0",",","0","0">>, <<"9","5","0",",","0","0">>)

\* rows of tables whose width is not six
RawRowsOther(n) == {Widen(ScenarioRow1, n), Widen(ScenarioRow2, n)}

RawWidths == {0, 5, 6, 7}

RawRows(n) == IF n = 6 THEN RawRows6 ELSE IF n = 0 THEN {} ELSE RawRowsOther(n)

\* a table as camelot builds it: columns 0..n-1, row labels 0..k-1
RawTable(n, rows) ==
    [columns |-> [i \in 1..n |-> ColLabel(i - 1)],
     index   |-> [i \in 1..Len(rows) |-> i - 1],
     rows    |-> rows]

\* the tables of n columns and k rows
RawTables(n, k) == {RawTable(n, rows) : rows \in [1..k -> RawRows(n)]}

----------------------------------------------------------------------------
(* SpecNorm: process_transactions, then validate_balances on its result *)

InitNorm ==
    /\ pc = "start"
    /\ \E n \in RawWidths, k \in 0..MaxRows : raw_df \in RawTables(n, k)
    /\ raw_before = raw_df
    /\ processed_data = EmptyDF
    /\ discrepancies = EmptyDF
    /\ st_log = << >>
    /\ raised = "none"
    /\ df = EmptyDF
    /\ perturbed = 0
    /\ datos_bancarios = NoDirectory
    /\ combined_df = EmptyDF
    /\ RunIdle

ProcessTransactions ==
    /\ pc = "start"
    /\ \E p \in SortChoices(raw_df) :
       \E r \in {process_transactions(raw_df, p)} :
          /\ processed_data' = r.ret
          /\ st_log' = st_log \o r.log
          /\ raw_df' = r.raw
          /\ raised' = r.exc
    /\ pc' = "processed"
    /\ UNCHANGED <<discrepancies, raw_before, df, perturbed, datos_bancarios, combined_df>>
    /\ UNCHANGED runVars

ValidateBalances ==
    /\ pc = "processed"
    /\ discrepancies' = validate_balances(processed_data)
    /\ df' = processed_data
    /\ pc' = "validated"
    /\ UNCHANGED <<raw_df, processed_data, st_log, raw_before, raised, perturbed,
                   datos_bancarios, combined_df>>
    /\ UNCHANGED runVars

NextNorm == ProcessTransactions \/ ValidateBalances

SpecNorm == InitNorm /\ [][NextNorm]_vars

----------------------------------------------------------------------------
(* Claims about process_transactions and validate_balances (SpecNorm) *)

ScenarioTable == RawTable(6, <<ScenarioRow1, ScenarioRow2>>)

ScenarioDone == pc = "validated" /\ raw_before = ScenarioTable

\* C1 as stated: on the two rows of the end-to-end scenario the normalized
\* table has 2 rows, categories [Ingresos, Egresos], Flujo Neto [100.0, -50.0],
\* and validate_balances returns an empty table.
C1_AsStated ==
    ScenarioDone =>
        /\ Len(processed_data.rows) = 2
        /\ Column(processed_data, "Categoría") = <<"Ingresos", "Egresos">>
        /\ Column(processed_data, "Flujo Neto") = <<100 * Scale, (0 - 50) * Scale>>
        /\ IsEmpty(discrepancies)

\* C1 amended: the commas are dropped as thousands separators, so on the two
\* rows of the scenario the normalized table has 2 rows, categories
\* [Ingresos, Egresos], Flujo Neto [10000.0, -5000.0], Saldo [1.0, 95000.0],
\* and validate_balances returns exactly the second row.
C1_Scenario ==
    ScenarioDone =>
        /\ Len(processed_data.rows) = 2
        /\ Column(processed_data, "Categoría") = <<"Ingresos", "Egresos">>
        /\ Column(processed_data, "Flujo Neto") = <<10000 * Scale, (0 - 5000) * Scale>>
        /\ Column(processed_data, "Saldo") = <<1 * Scale, 95000 * Scale>>
        /\ discrepancies.index = <<1>>
        /\ Len(st_log) = 0

C1_Witness == ScenarioDone /\ Len(discrepancies.rows) = 1

\* process_transactions ran on a non-empty six-column table and reported no error
Succeeded ==
    /\ pc # "start"
    /\ ~IsEmpty(raw_before)
    /\ Len(raw_before.columns) = 6
    /\ st_log = << >>

\* C4: for every non-empty six-column raw table on which process_transactions
\* succeeds, the returned rows are sorted non-decreasing by Fecha and every
\* row has Ingresos - Egresos = Flujo Neto = Valor, Ingresos >= 0, Egresos >= 0,
\* Ingresos = Valor if Valor > 0 else 0, Egresos = |Valor| if Valor < 0 else 0,
\* and Saldo Acumulado = Saldo.
C4_SortedAndFlows ==
    Succeeded =>
        /\ \A i, j \in 1..Len(processed_data.rows) :
              i < j => processed_data.rows[i]["Fecha"] <= processed_data.rows[j]["Fecha"]
        /\ \A i \in 1..Len(processed_data.rows) :
              LET r == processed_data.rows[i]
              IN  /\ r["Fecha"] # NaT
                  /\ r["Ingresos"] - r["Egresos"] = r["Flujo Neto"]
                  /\ r["Flujo Neto"] = r["Valor"]
                  /\ r["Ingresos"] >= 0
                  /\ r["Egresos"] >= 0
                  /\ (r["Valor"] > 0 => r["Ingresos"] = r["Valor"])
                  /\ (r["Valor"] <= 0 => r["Ingresos"] = 0)
                  /\ (r["Valor"] < 0 => r["Egresos"] = 0 - r["Valor"])
                  /\ (r["Valor"] >= 0 => r["Egresos"] = 0)
                  /\ r["Saldo Acumulado"] = r["Saldo"]

\* a later statement row with the earlier date came out first, and an outflow
\* and an inflow are both present
C4_Witness ==
    /\ Succeeded
    /\ processed_data.index = <<1, 0>>
    /\ processed_data.rows[1]["Fecha"] < processed_data.rows[2]["Fecha"]
    /\ processed_data.rows[1]["Egresos"] > 0
    /\ processed_data.rows[2]["Ingresos"] > 0

Categorias == {"Ingresos", "Egresos", "Servicios", "Otros"}

\* C5: the category of every normalized row is one of Ingresos, Egresos,
\* Servicios, Otros, chosen by first match in that order: an Ingresos pattern
\* wins over everything, an Egresos pattern over Servicios, Otros when none
\* matches; "TRANSFERENCIA A FAVOR" is Ingresos, "TRANSFERENCIA BANCARIA" is
\* Egresos, and a description with an Egresos and a Servicios pattern is Egresos.
C5_FirstMatch ==
    \A i \in 1..Len(processed_data.rows) :
        LET r == processed_data.rows[i]
            d == r["Descripción"]
            c == r["Categoría"]
            ing == SearchAny(PatIngresos, d)
            egr == SearchAny(PatEgresos, d)
            ser == SearchAny(PatServicios, d)
        IN  /\ c \in Categorias
            /\ (c = "Ingresos") = ing
            /\ (c = "Egresos") = (~ing /\ egr)
            /\ (c = "Servicios") = (~ing /\ ~egr /\ ser)
            /\ (c = "Otros") = (~ing /\ ~egr /\ ~ser)
            /\ (Contains(d, <<"T","R","A","N","S","F","E","R","E","N","C","I","A"," ","A"," ","F","A","V","O","R">>) => c = "Ingresos")
            /\ (d = <<"T","R","A","N","S","F","E","R","E","N","C","I","A"," ","B","A","N","C","A","R","I","A">> => c = "Egresos")
            /\ (egr /\ ser /\ ~ing => c = "Egresos")

C5_Witness ==
    /\ Len(processed_data.rows) = 2
    /\ processed_data.rows[1]["Descripción"] = <<"T","R","A","N","S","F","E","R","E","N","C","I","A"," ","A"," ","F","A","V","O","R">>
    /\ processed_data.rows[1]["Categoría"] = "Ingresos"
    /\ processed_data.rows[2]["Descripción"] = <<"R","E","T","I","R","O"," ","T","A","R","J","E","T","A">>
    /\ processed_data.rows[2]["Categoría"] = "Egresos"

\* C10 as stated: for every raw table whose column count is not six,
\* process_transactions returns an empty table and emits an error message,
\* and raises no exception.
C10_AsStated ==
    (pc # "start" /\ Len(raw_before.columns) # 6) =>
        /\ processed_data = EmptyDF
        /\ \E k \in 1..Len(st_log) : st_log[k].sev = "error"
        /\ raised = "none"

\* C10 amended: for every raw table that is not empty and whose column count
\* is not six, process_transactions returns an empty table, emits an error
\* message and raises no exception; for an empty raw table it returns an
\* empty table and emits no message.
C10_ColumnMismatch ==
    (pc # "start" /\ Len(raw_before.columns) # 6) =>
        /\ processed_data = EmptyDF
        /\ raised = "none"
        /\ raw_df = raw_before
        /\ IF IsEmpty(raw_before)
           THEN st_log = << >>
           ELSE st_log = <<[sev |-> "error", fn |-> "process_transactions"]>>

C10_Witness ==
    /\ pc = "processed"
    /\ Len(raw_before.columns) = 5
    /\ Len(raw_before.rows) = 2
    /\ processed_data = EmptyDF
    /\ Len(st_log) = 1


\* the cell of row i of the caller's raw table in its k-th column
RawCell(i, k) == raw_before.rows[i][raw_before.columns[k]]

\* the Fecha cell of row i of the raw table is a date
DateParses(i) == to_datetime(RawCell(i, 1)) # NaT

\* a currency cell that is empty after stripping, or no number otherwise
BadCell(s) == StripCurrency(s) = << >> \/ ~IsFloat(CleanCurrency(s))

\* a non-empty six-column raw table none of whose rows has a parseable date
NoParseableDate ==
    /\ ~IsEmpty(raw_before)
    /\ Len(raw_before.columns) = 6
    /\ \A i \in 1..Len(raw_before.rows) : ~DateParses(i)

\* C11: for an empty raw table, and for every six-column raw table in which
\* no row has a parseable date, process_transactions returns an empty table,
\* no exception leaves the call, and no message is emitted (the rows are
\* dropped silently).
C11_EmptyOrNoDates ==
    (pc # "start" /\ (IsEmpty(raw_before) \/ NoParseableDate)) =>
        /\ IsEmpty(processed_data)
        /\ Len(processed_data.rows) = 0
        /\ raised = "none"
        /\ st_log = << >>

\* two rows without a date, one of them with a Valor cell that is no number
C11_Witness ==
    /\ pc = "processed"
    /\ NoParseableDate
    /\ Len(raw_before.rows) = 2
    /\ BadCell(RawCell(1, 5))
    /\ ~BadCell(RawCell(2, 5))
    /\ IsEmpty(processed_data)

\* C12 as stated: after any call of process_transactions the caller's raw
\* table object has the column names and the cell values it had before.
C12_AsStated ==
    pc # "start" =>
        /\ raw_df.columns = raw_before.columns
        /\ raw_df.rows = raw_before.rows

\* a row that survives the date filter has a Valor or Saldo cell that does
\* not convert
SurvivorBadCell ==
    \E i \in 1..Len(raw_before.rows) :
        DateParses(i) /\ (BadCell(RawCell(i, 5)) \/ BadCell(RawCell(i, 6)))

\* C16: for a non-empty six-column raw table, the currency cells of rows
\* without a parseable date never make process_transactions fail; if some row
\* with a parseable date has a Valor or Saldo cell that is empty or no number
\* after stripping, the call returns an empty table and reports one error (no
\* row is kept); otherwise it reports nothing and returns one row per row with
\* a parseable date.
C16_AllOrNothing ==
    (pc # "start" /\ ~IsEmpty(raw_before) /\ Len(raw_before.columns) = 6) =>
        /\ raised = "none"
        /\ IF SurvivorBadCell
           THEN /\ processed_data = EmptyDF
                /\ st_log = <<[sev |-> "error", fn |-> "process_transactions"]>>
           ELSE /\ st_log = << >>
                /\ Len(processed_data.rows) =
                      Cardinality({i \in 1..Len(raw_before.rows) : DateParses(i)})

\* a valid row is lost because the other dated row has an empty Valor cell
C16_Witness ==
    /\ pc = "processed"
    /\ Len(raw_before.columns) = 6
    /\ Len(raw_before.rows) = 2
    /\ DateParses(1) /\ ~BadCell(RawCell(1, 5)) /\ ~BadCell(RawCell(1, 6))
    /\ DateParses(2) /\ RawCell(2, 5) = << >>
    /\ processed_data = EmptyDF
    /\ Len(st_log) = 1

\* a row without a date and with an empty Valor cell is dropped, the other
\* row is returned
C16_WitnessDropped ==
    /\ pc = "processed"
    /\ Len(raw_before.columns) = 6
    /\ Len(raw_before.rows) = 2
    /\ ~DateParses(1) /\ BadCell(RawCell(1, 5))
    /\ DateParses(2)
    /\ Len(processed_data.rows) = 1
    /\ st_log = << >>

----------------------------------------------------------------------------
(* SpecVal: validate_balances on a table of parsed movements, as it is or   *)
(* after one reported balance was changed                                   *)

\* amounts in units of 1/Scale
ValValores == {0 - 100, 100, 101}

ValSaldos == {0, 100, 200, 201}

\* the changes applied to one Saldo: below, at and above the tolerance
ValDeltas == {0 - 250, 0 - 101, 0 - 100, 50, 100, 101}

ValRow(v, s) == [c \in {"Valor", "Saldo"} |-> IF c = "Valor" THEN v ELSE s]

ValRows == {ValRow(v, s) : v \in ValValores, s \in ValSaldos}

ValTable(rows) ==
    [columns |-> <<"Valor", "Saldo">>,
     index   |-> [i \in 1..Len(rows) |-> i - 1],
     rows    |-> rows]

\* the table without the column col
DropColumn(t, col) ==
    [columns |-> SelectSeq(t.columns, LAMBDA c : c # col),
     index   |-> t.index,
     rows    |-> [i \in 1..Len(t.rows) |->
                    [c \in (DOMAIN t.rows[i]) \ {col} |-> t.rows[i][c]]]]

\* the tables of k rows with both columns
ValTables(k) == {ValTable(rows) : rows \in [1..k -> ValRows]}

\* one-row tables lacking one of the two columns, and the empty table
ValTablesOther ==
    {DropColumn(t, c) : t \in ValTables(1), c \in {"Valor", "Saldo"}} \cup {EmptyDF}

\* df with the Saldo at position i changed by d
WithSaldo(t, i, d) ==
    [t EXCEPT !.rows[i] = [c \in DOMAIN t.rows[i] |->
                              IF c = "Saldo" THEN t.rows[i][c] + d ELSE t.rows[i][c]]]

InitVal ==
    /\ pc = "start"
    /\ \/ \E k \in 0..MaxRows : df \in ValTables(k)
       \/ df \in ValTablesOther
    /\ processed_data = df
    /\ perturbed = 0
    /\ discrepancies = EmptyDF
    /\ raw_df = EmptyDF
    /\ raw_before = EmptyDF
    /\ st_log = << >>
    /\ raised = "none"
    /\ datos_bancarios = NoDirectory
    /\ combined_df = EmptyDF
    /\ RunIdle

\* the caller changes one balance of the table before validating it;
\* processed_data keeps the table as it was
PerturbSaldo ==
    /\ pc = "start"
    /\ ~IsEmpty(df) /\ HasCol(df, "Valor") /\ HasCol(df, "Saldo")
    /\ \E i \in 1..Len(df.rows), d \in ValDeltas :
          /\ df' = WithSaldo(df, i, d)
          /\ perturbed' = i
    /\ pc' = "perturbed"
    /\ UNCHANGED <<raw_df, processed_data, discrepancies, st_log, raw_before, raised,
                   datos_bancarios, combined_df>>
    /\ UNCHANGED runVars

ValidateDf ==
    /\ pc \in {"start", "perturbed"}
    /\ discrepancies' = validate_balances(df)
    /\ pc' = "validated"
    /\ UNCHANGED <<raw_df, processed_data, st_log, raw_before, raised, df, perturbed,
                   datos_bancarios, combined_df>>
    /\ UNCHANGED runVars

NextVal == PerturbSaldo \/ ValidateDf

SpecVal == InitVal /\ [][NextVal]_vars

----------------------------------------------------------------------------
(* Claims about validate_balances (SpecVal) *)

\* sum of the first i values of Valor
RECURSIVE PrefixSum(_, _)
PrefixSum(t, i) == IF i = 0 THEN 0 ELSE PrefixSum(t, i - 1) + t.rows[i]["Valor"]

\* balance[i] = balance[0] + cumsum(value)[i] - value[0] for every i
Consistent(t) ==
    \A i \in 1..Len(t.rows) :
        t.rows[i]["Saldo"] = t.rows[1]["Saldo"] + PrefixSum(t, i) - t.rows[1]["Valor"]

\* the row at position i of df is among the rows returned
Returned(i) == \E k \in 1..Len(discrepancies.index) : discrepancies.index[k] = df.index[i]

\* a consistent table had the balance of one row changed by more than 1.0 and
\* was validated
PerturbedBeyondTolerance ==
    /\ pc = "validated"
    /\ perturbed # 0
    /\ Consistent(processed_data)
    /\ Abs(df.rows[perturbed]["Saldo"] - processed_data.rows[perturbed]["Saldo"]) > Scale

\* C2 as stated: for every consistent table and every row i, changing only
\* balance[i] by more than 1.0 makes validate_balances return row i.
C2_AsStated == PerturbedBeyondTolerance => Returned(perturbed)

\* C2 amended: for every consistent table and every row i other than the
\* first, changing only balance[i] by more than 1.0 makes validate_balances
\* return row i (and no other row); changing the balance of the first row by
\* more than 1.0 never returns the first row and returns every other row.
C2_Perturbed ==
    PerturbedBeyondTolerance =>
        \A i \in 1..Len(df.rows) :
            Returned(i) = IF perturbed = 1 THEN i # 1 ELSE i = perturbed

C2_Witness ==
    /\ PerturbedBeyondTolerance
    /\ perturbed = 2
    /\ discrepancies.index = <<1>>

\* the first balance of a consistent table was changed by more than 1.0
C2_WitnessFirst ==
    /\ PerturbedBeyondTolerance
    /\ perturbed = 1
    /\ Len(df.rows) = 2
    /\ discrepancies.index = <<1>>

\* |cumsum(Valor)[i] + Saldo[0] - Valor[0] - Saldo[i]|
Difference(t, i) ==
    Abs(PrefixSum(t, i) + t.rows[1]["Saldo"] - t.rows[1]["Valor"] - t.rows[i]["Saldo"])

\* df can be validated: it is not empty and has both columns
Validatable(t) ==
    /\ Len(t.rows) > 0
    /\ "Valor" \in Range(t.columns)
    /\ "Saldo" \in Range(t.columns)

\* C3: validate_balances returns exactly the rows i whose difference
\* |cumsum(Valor)[i] + Saldo[0] - Valor[0] - Saldo[i]| is strictly greater
\* than 1 (a difference of exactly 1 is not returned), in the order and with
\* the values of the input, so a consistent table yields an empty result; it
\* returns the empty table when the input is empty or lacks Valor or Saldo.
C3_ExactlyTheDiscrepancies ==
    pc = "validated" =>
        IF Validatable(df)
        THEN /\ \A i \in 1..Len(df.rows) : Returned(i) = (Difference(df, i) > Scale)
             /\ \A i \in 1..Len(df.rows) : Difference(df, i) = Scale => ~Returned(i)
             /\ \A k \in 1..Len(discrepancies.rows) :
                   \E i \in 1..Len(df.rows) :
                       /\ discrepancies.index[k] = df.index[i]
                       /\ discrepancies.rows[k] = df.rows[i]
             /\ \A k \in 1..(Len(discrepancies.index) - 1) :
                   discrepancies.index[k] < discrepancies.index[k + 1]
             /\ discrepancies.columns = df.columns
             /\ (Consistent(df) => Len(discrepancies.rows) = 0)
        ELSE discrepancies = EmptyDF

\* a table with one row at a difference of exactly 1 (kept out) next to
\* nothing returned
C3_Witness ==
    /\ pc = "validated"
    /\ Validatable(df)
    /\ Len(df.rows) = 2
    /\ Difference(df, 2) = Scale
    /\ Len(discrepancies.rows) = 0

\* a table lacking the Saldo column gives the empty table
C3_WitnessNoColumn ==
    /\ pc = "validated"
    /\ Len(df.rows) = 1
    /\ ~HasCol(df, "Saldo")
    /\ discrepancies = EmptyDF

\* a row beyond the tolerance is returned
C3_WitnessReturned ==
    /\ pc = "validated"
    /\ Validatable(df)
    /\ \E i \in 1..Len(df.rows) : Difference(df, i) = Scale + 1 /\ Returned(i)

----------------------------------------------------------------------------
(* SpecHist: cargar_datos_historicos on a directory of snapshot files *)

MaxFiles == 2

HistRow(f, v, d, s) ==
    [c \in {"Fecha", "Valor", "Descripción", "Saldo"} |->
        CASE c = "Fecha" -> f [] c = "Valor" -> v [] c = "Descripción" -> d
          [] OTHER -> s]

\* the row without the cell of column col
WithoutCell(row, col) == [c \in (DOMAIN row) \ {col} |-> row[c]]

HistColumns == <<"Fecha", "Descripción", "Valor", "Saldo">>

Row_d1 == HistRow(<<"2","0","2","4","-","0","1","-","0","1">>, 100, <<"A","B","O","N","O">>, 0)
Row_d2 == HistRow(<<"2","0","2","4","-","0","1","-","0","2">>, 100, <<"A","B","O","N","O">>, 0)
Row_d1_otherValor == HistRow(<<"2","0","2","4","-","0","1","-","0","1">>, 0 - 50, <<"A","B","O","N","O">>, 0)
Row_d1_otherDesc == HistRow(<<"2","0","2","4","-","0","1","-","0","1">>, 100, <<"R","E","T","I","R","O">>, 0)
Row_d1_otherSaldo == HistRow(<<"2","0","2","4","-","0","1","-","0","1">>, 100, <<"A","B","O","N","O">>, 7)
Row_badDate == HistRow(<<"a","y","e","r">>, 100, <<"A","B","O","N","O">>, 0)

\* what a file of the directory holds: csv is whether its name ends in .csv,
\* readable whether pd.read_csv returns a table
Snapshot(rows) == [csv |-> TRUE, readable |-> TRUE, columns |-> HistColumns, rows |-> rows]

SnapshotWithout(col, row) ==
    [csv |-> TRUE, readable |-> TRUE,
     columns |-> SelectSeq(HistColumns, LAMBDA c : c # col),
     rows |-> <<WithoutCell(row, col)>>]

HistContents ==
    {[csv |-> TRUE, readable |-> FALSE, columns |-> << >>, rows |-> << >>],
     [csv |-> FALSE, readable |-> TRUE, columns |-> HistColumns, rows |-> <<Row_d2>>],
     Snapshot(<< >>),
     Snapshot(<<Row_d1>>),
     Snapshot(<<Row_d2>>),
     Snapshot(<<Row_d1_otherSaldo>>),
     Snapshot(<<Row_badDate>>),
     Snapshot(<<Row_d2, Row_d1>>),
     Snapshot(<<Row_d1, Row_d1_otherSaldo>>),
     Snapshot(<<Row_d1_otherValor, Row_d1_otherDesc>>),
     Snapshot(<<Row_d2, Row_badDate>>),
     SnapshotWithout("Valor", Row_d1),
     SnapshotWithout("Fecha", Row_d2),
     SnapshotWithout("Descripción", Row_d1)}

\* the directory holding the contents cs, in os.listdir order; the k-th file
\* is named k
Directory(cs) ==
    [exists |-> TRUE,
     files  |-> [k \in 1..Len(cs) |->
                   [name |-> k, csv |-> cs[k].csv, readable |-> cs[k].readable,
                    columns |-> cs[k].columns, rows |-> cs[k].rows]]]

\* the directories of k files
Directories(k) == {Directory(cs) : cs \in [1..k -> HistContents]}

InitHist ==
    /\ pc = "start"
    /\ \/ datos_bancarios = NoDirectory
       \/ \E k \in 0..MaxFiles : datos_bancarios \in Directories(k)
    /\ combined_df = EmptyDF
    /\ st_log = << >>
    /\ raised = "none"
    /\ raw_df = EmptyDF
    /\ raw_before = EmptyDF
    /\ processed_data = EmptyDF
    /\ discrepancies = EmptyDF
    /\ df = EmptyDF
    /\ perturbed = 0
    /\ RunIdle

CargarDatosHistoricos ==
    /\ pc = "start"
    /\ \E p \in HistSortChoices(datos_bancarios) :
       \E r \in {cargar_datos_historicos(datos_bancarios, p)} :
          /\ combined_df' = r.ret
          /\ st_log' = st_log \o r.log
          /\ raised' = r.exc
    /\ pc' = "loaded"
    /\ UNCHANGED <<raw_df, raw_before, processed_data, discrepancies, df, perturbed,
                   datos_bancarios>>
    /\ UNCHANGED runVars

NextHist == CargarDatosHistoricos

SpecHist == InitHist /\ [][NextHist]_vars

----------------------------------------------------------------------------
(* Claims about cargar_datos_historicos (SpecHist) *)

Loaded == pc = "loaded"

\* the files of the directory the loader tries to read
Tried == {k \in 1..Len(datos_bancarios.files) : datos_bancarios.files[k].csv}

\* the files that fail to read: read_csv raises or a date does not parse
Failing ==
    {k \in Tried :
        \/ ~datos_bancarios.files[k].readable
        \/ \E i \in 1..Len(datos_bancarios.files[k].rows) :
              LET row == datos_bancarios.files[k].rows[i]
              IN  "Fecha" \in DOMAIN row /\ to_datetime_iso(row["Fecha"]) = NaT}

\* the (file, row) places of the rows of the files read, and their order in
\* the concatenation
Places ==
    UNION {{<<k, i>> : i \in 1..Len(datos_bancarios.files[k].rows)} : k \in Tried \ Failing}

Earlier(a, b) == a[1] < b[1] \/ (a[1] = b[1] /\ a[2] < b[2])

\* the row at a place, its Fecha converted
RowAt(a) == ReadFile(datos_bancarios.files[a[1]]).rows[a[2]]

\* the (Fecha, Valor, Descripción) triple of a row, NaN for a missing cell
Triple(row) ==
    [c \in {"Fecha", "Valor", "Descripción"} |->
        IF c \in DOMAIN row THEN <<row[c]>> ELSE << >>]

\* C8: cargar_datos_historicos never raises: whatever the files (failing to
\* read, read without some of Fecha/Valor/Descripción, or read fully), each
\* failing file is skipped with one warning, the rows of all other files are
\* still returned, and when every file fails the result is the empty table.
C8_NeverRaises ==
    Loaded =>
        /\ raised = "none"
        /\ Len(st_log) = Cardinality(Failing)
        /\ \A k \in Failing : \E m \in 1..Len(st_log) :
              st_log[m].sev = "warning" /\ st_log[m].file = k
        /\ \A a \in Places : \E i \in 1..Len(combined_df.rows) :
              Triple(combined_df.rows[i]) = Triple(RowAt(a))
        /\ (Tried \ Failing = {} => combined_df = EmptyDF)

\* the part of C8 the code does satisfy: a call that returns has skipped each
\* failing file with one warning, kept the rows of the others, and returned
\* the empty table when every file failed
C8_WhenItReturns ==
    (Loaded /\ raised = "none") =>
        /\ Len(st_log) = Cardinality(Failing)
        /\ \A k \in Failing : \E m \in 1..Len(st_log) :
              st_log[m].sev = "warning" /\ st_log[m].file = k
        /\ \A a \in Places : \E i \in 1..Len(combined_df.rows) :
              Triple(combined_df.rows[i]) = Triple(RowAt(a))
        /\ (Tried \ Failing = {} => combined_df = EmptyDF)

\* C9: the table returned by cargar_datos_historicos has no two rows with the
\* same (Fecha, Valor, Descripción) triple, has every distinct triple of the
\* files read, each as the row of its first occurrence in concatenation order,
\* and is sorted ascending by Fecha (rows without date last); an identical
\* triple present in two files yields one row.
C9_DedupSorted ==
    (Loaded /\ raised = "none") =>
        /\ \A i, j \in 1..Len(combined_df.rows) :
              i # j => Triple(combined_df.rows[i]) # Triple(combined_df.rows[j])
        /\ \A a \in Places : \E i \in 1..Len(combined_df.rows) :
              Triple(combined_df.rows[i]) = Triple(RowAt(a))
        /\ \A i \in 1..Len(combined_df.rows) : \E a \in Places :
              /\ combined_df.rows[i] = RowAt(a)
              /\ \A b \in Places : Earlier(b, a) => Triple(RowAt(b)) # Triple(RowAt(a))
        /\ \A i, j \in 1..Len(combined_df.rows) :
              i < j => \/ FechaOf(combined_df.rows[j]) = NaT
                       \/ /\ FechaOf(combined_df.rows[i]) # NaT
                          /\ FechaOf(combined_df.rows[i]) <= FechaOf(combined_df.rows[j])

\* two files hold the same triple (with different Saldo): one row is
\* returned, the one of the first file
C9_Witness ==
    /\ Loaded /\ raised = "none"
    /\ Len(datos_bancarios.files) = 2
    /\ datos_bancarios.files[1].rows = <<Row_d1>>
    /\ datos_bancarios.files[2].rows = <<Row_d1_otherSaldo>>
    /\ Len(combined_df.rows) = 1
    /\ combined_df.rows[1]["Saldo"] = 0

\* rows of two files come out in date order
C9_WitnessSorted ==
    /\ Loaded /\ raised = "none"
    /\ Len(combined_df.rows) = 2
    /\ combined_df.index = <<1, 0>>
    /\ combined_df.rows[1]["Fecha"] = 20240101
    /\ combined_df.rows[2]["Fecha"] = 20240102

----------------------------------------------------------------------------
(* SpecRun: the session of the script. The first run follows the page load,  *)
(* every later run follows one interaction with a sidebar widget.            *)

HeaderRow == Row6(<<"F","E","C","H","A">>, <<"D","E","S","C","R","I","P","C","I","Ó","N">>, <<"V","A","L","O","R">>, <<"S","A","L","D","O">>)

Pdf(corrupt, tables) == [kind |-> "pdf", corrupt |-> corrupt, tables |-> tables]

\* the statements a user may upload
Pdfs ==
    {Pdf(TRUE, << >>),
     Pdf(FALSE, << >>),
     Pdf(FALSE, <<RawTable(6, <<HeaderRow, ScenarioRow1, ScenarioRow2>>)>>),
     Pdf(FALSE, <<RawTable(6, <<HeaderRow, ScenarioRow2>>),
                  RawTable(6, <<HeaderRow, Row6(<<"0","1","/","0","1","/","2","0","2","4">>, <<"C","O","M","P","R","A">>, <<"$"," ","1",".","5","0">>, <<"2",".","5","0">>)>>)>>),
     Pdf(FALSE, <<RawTable(6, <<HeaderRow, Row6(<<"0","1","/","0","1","/","2","0","2","4">>, <<"C","O","M","P","R","A">>, <<"0",".","0","0">>, <<"1",".","0","0">>),
                                Row6(<<"0","2","/","0","1","/","2","0","2","4">>, <<"C","O","M","P","R","A">>, <<"$"," ","1",".","5","0">>, <<"2",".","5","0">>)>>)>>),
     Pdf(FALSE, <<RawTable(6, <<HeaderRow>>)>>),
     Pdf(FALSE, <<RawTable(6, <<HeaderRow, Row6(<<"0","1","/","0","1","/","2","0","2","4">>, <<"A","B","O","N","O"," ","X">>, << >>, <<"9","5","0",",","0","0">>)>>)>>),
     Pdf(FALSE, <<RawTable(5, <<Widen(ScenarioRow1, 5)>>)>>)}

\* the snapshot directories a session may run with
RunDirectories ==
    {NoDirectory,
     Directory(<<Snapshot(<<Row_d2, Row_d1>>)>>),
     Directory(<<Snapshot(<<Row_badDate>>)>>),
     Directory(<<SnapshotWithout("Fecha", Row_d2), Snapshot(<<Row_d2, Row_d1>>)>>),
     Directory(<<SnapshotWithout("Valor", Row_d1)>>)}

Todays == {20240301, 20260115}

CalmEnv ==
    [camelot |-> "ok", write |-> "ok", today |-> 20240301,
     draw |-> CHOOSE d \in RandomDraws : d.ingresos[1] = d.ingresos[2]]

\* the outcomes of the environment that bear on a run with session ss
Envs(ss) ==
    IF ss.fuente_datos = "Nuevo extracto PDF" /\ ss.uploaded_file # None
    THEN {[CalmEnv EXCEPT !.camelot = c, !.write = w] :
             c \in {"ok", "raise"}, w \in {"ok", "raise"}}
    ELSE IF ss.fuente_datos = "Datos de prueba 2024"
    THEN {CalmEnv}
    ELSE {[CalmEnv EXCEPT !.today = t, !.draw = d] : t \in Todays, d \in RandomDraws}

\* what the widgets can hold after one interaction of the user
Interactions(w) ==
    {[w EXCEPT !.fuente_datos = f] : f \in Fuentes}
    \cup {[w EXCEPT !.uploaded_file = u] : u \in Pdfs \cup {None}}

InitRun ==
    /\ pc = "fresh"
    /\ datos_bancarios \in RunDirectories
    /\ RunIdle
    /\ combined_df = EmptyDF
    /\ st_log = << >>
    /\ raised = "none"
    /\ raw_df = EmptyDF
    /\ raw_before = EmptyDF
    /\ processed_data = EmptyDF
    /\ discrepancies = EmptyDF
    /\ df = EmptyDF
    /\ perturbed = 0

\* one top-to-bottom run of the script; ws: what the widgets may hold in it.
\* A run that raises stops before the sidebar and stores nothing
RunScript(ws) ==
    \E env \in Envs(session_state) :
    \E p \in LoadSortChoices(session_state.uploaded_file, env) :
    \E ph \in HistSortChoices(datos_bancarios) :
    \E sel \in {SelectDataset(session_state, datos_bancarios, env, p, ph)} :
        /\ st_log' = sel.log
        /\ raised' = sel.exc
        /\ session_start' = session_state
        /\ run_today' = env.today
        /\ df_pdf' = sel.pdf
        /\ extracto_mes' = sel.mes
        /\ combined_df' = sel.hist
        /\ df_source' = sel.df
        /\ tmp_file' = IF ~sel.created THEN "none"
                       ELSE IF sel.tmp_exists THEN "exists" ELSE "deleted"
        /\ IF sel.exc # "none"
           THEN df_dashboard' = EmptyDF
           ELSE \E q \in SortedPerms(AddColumns(sel.df, columnas_requeridas)) :
                   df_dashboard' = Unify(sel.df, q)
        /\ \E w \in ws :
              /\ widgets' = w
              /\ session_state' = IF sel.exc # "none" THEN session_state
                                  ELSE Sidebar(session_state, w)

FirstRun ==
    /\ pc = "fresh"
    /\ RunScript({widgets})
    /\ pc' = "session"
    /\ UNCHANGED <<raw_df, raw_before, processed_data, discrepancies, df, perturbed,
                   datos_bancarios, periodo, df_filtrado>>

\* a run that raised has drawn no sidebar: the widgets stay as they are
Rerun ==
    /\ pc = "session"
    /\ RunScript(IF raised = "none" THEN Interactions(widgets) ELSE {widgets})
    /\ pc' = "session"
    /\ UNCHANGED <<raw_df, raw_before, processed_data, discrepancies, df, perturbed,
                   datos_bancarios, periodo, df_filtrado>>

NextRun == FirstRun \/ Rerun

SpecRun == InitRun /\ [][NextRun]_vars

----------------------------------------------------------------------------
(* Claims about the run of the script *)

\* a run of the script has ended without an exception
Rendered == pc = "session" /\ raised = "none"

\* C6: for every data source and every outcome of extraction, normalization
\* and historical loading, the dataset handed to the renderer has rows
C6_AsStated == Rendered => ~IsEmpty(df_dashboard)

\* C7: a call of load_and_process_bank_statement that created the temporary
\* file has deleted it when the call returns, whatever the outcome
C7_AsStated == (pc = "session" /\ tmp_file # "none") => tmp_file = "deleted"

\* the required columns the dataset chosen at lines 431-457 lacks
MissingColumns == {c \in Range(columnas_requeridas) : ~HasCol(df_source, c)}

\* a row of the chosen dataset with 0 in every required column the dataset lacks
Filled(row) ==
    [c \in (DOMAIN row) \cup MissingColumns |-> IF c \in DOMAIN row THEN row[c] ELSE 0]

\* C13: after the unification step of a run, whatever the data source, the
\* dataset has the five columns Fecha, Ingresos, Egresos, Flujo Neto, Saldo
\* Acumulado and every column of the chosen table; its rows are the rows of
\* the chosen table, each with 0 in the columns the table lacked and its other
\* cells as they were (in the same order when the dates of the chosen table
\* ascend strictly); and the rows are in ascending order of Fecha, rows
\* without a date last.
C13_Unified ==
    Rendered =>
        /\ \A c \in Range(columnas_requeridas) : HasCol(df_dashboard, c)
        /\ \A k \in 1..Len(df_source.columns) : HasCol(df_dashboard, df_source.columns[k])
        /\ Len(df_dashboard.columns) = Len(df_source.columns) + Cardinality(MissingColumns)
        /\ Len(df_dashboard.rows) = Len(df_source.rows)
        /\ IF StrictlyAscending(df_source)
           THEN \A i \in 1..Len(df_source.rows) :
                   df_dashboard.rows[i] = Filled(df_source.rows[i])
           ELSE \A i \in 1..Len(df_dashboard.rows) :
                   Cardinality({j \in 1..Len(df_dashboard.rows) :
                                   df_dashboard.rows[j] = df_dashboard.rows[i]})
                   = Cardinality({j \in 1..Len(df_source.rows) :
                                     Filled(df_source.rows[j]) = df_dashboard.rows[i]})
        /\ \A i \in 1..(Len(df_dashboard.rows) - 1) :
              DateLeq(FechaOf(df_dashboard.rows[i]), FechaOf(df_dashboard.rows[i + 1]))

\* the historical table, which has Fecha and Valor and none of the four
\* amount columns, was unified: a row without a date is last
C13_Witness ==
    /\ Rendered
    /\ HasCol(df_source, "Valor")
    /\ MissingColumns = {"Ingresos", "Egresos", "Flujo Neto", "Saldo Acumulado"}
    /\ Len(df_dashboard.rows) = 3
    /\ df_dashboard.rows[1]["Valor"] = 100
    /\ df_dashboard.rows[1]["Ingresos"] = 0
    /\ FechaOf(df_dashboard.rows[3]) = NaT

\* the empty table of the PDF branch was unified: five columns, no rows
C13_WitnessEmpty ==
    /\ Rendered
    /\ df_source = EmptyDF
    /\ df_dashboard.columns = columnas_requeridas

\* load_and_process_bank_statement was called in the last run and returned a
\* table that is not empty
StatementLoaded == pc = "session" /\ ~IsEmpty(df_pdf)

\* what extract_bank_data returns for the uploaded file of the last run
RawOfUpload == extract_bank_data(session_start.uploaded_file, CalmEnv).ret

\* the discrepancy warnings among the messages of the last run
Warnings ==
    {k \in 1..Len(st_log) :
        st_log[k].sev = "warning" /\ st_log[k].fn = "load_and_process_bank_statement"}

\* C14: whenever the normalized table is not empty, the table returned by
\* load_and_process_bank_statement is the normalized table with the column
\* FechaStr added (one row per dated raw row, none removed or altered) and
\* the month label is the month of its first row, whether or not
\* validate_balances reports rows; the messages hold one warning with the
\* number of reported rows when that number is greater than 0, and no such
\* warning when it is 0.
C14_Advisory ==
    StatementLoaded =>
        /\ \E p \in SortChoices(RawOfUpload) :
              DropColumn(df_pdf, "FechaStr") = process_transactions(RawOfUpload, p).ret
        /\ \A i \in 1..Len(df_pdf.rows) :
              df_pdf.rows[i]["FechaStr"] = strftime_iso(df_pdf.rows[i]["Fecha"])
        /\ extracto_mes = strftime_month(df_pdf.rows[1]["Fecha"])
        /\ IF Len(validate_balances(df_pdf).rows) > 0
           THEN /\ Cardinality(Warnings) = 1
                /\ \A k \in Warnings : st_log[k].count = Len(validate_balances(df_pdf).rows)
           ELSE Warnings = {}
        /\ df_source = df_pdf

\* a statement with one discrepancy: both rows returned, one warning
C14_Witness ==
    /\ StatementLoaded
    /\ Len(df_pdf.rows) = 2
    /\ Len(validate_balances(df_pdf).rows) = 1
    /\ Cardinality(Warnings) = 1

\* a statement without discrepancies: both rows returned, no warning
C14_WitnessNone ==
    /\ StatementLoaded
    /\ Len(df_pdf.rows) = 2
    /\ Len(validate_balances(df_pdf).rows) = 0
    /\ st_log = << >>

\* the last run took the dataset from generar_datos at line 457
Simulated == Rendered /\ session_start.fuente_datos = "Simulado"

\* the rows of the chosen dataset are dated on consecutive calendar days
ConsecutiveDays ==
    \A i \in 1..(Len(df_source.rows) - 1) :
        Ordinal(df_source.rows[i + 1]["Fecha"]) = Ordinal(df_source.rows[i]["Fecha"]) + 1

\* C15 as stated: generar_datos returns 30 rows dated on 30 consecutive
\* calendar days, and the date of the last row is the day of the call.
C15_AsStated ==
    Simulated =>
        /\ Len(df_source.rows) = 30
        /\ ConsecutiveDays
        /\ df_source.rows[Len(df_source.rows)]["Fecha"] = run_today

\* C15, what the code does: the 30 consecutive days start 30 days before the
\* day of the call and end the day before it.
C15_EndsYesterday ==
    Simulated =>
        /\ Len(df_source.rows) = 30
        /\ ConsecutiveDays
        /\ Ordinal(df_source.rows[1]["Fecha"]) = Ordinal(run_today) - 30
        /\ Ordinal(df_source.rows[30]["Fecha"]) = Ordinal(run_today) - 1

\* t is a table cargar_datos_historicos returns for the directory
IsHistorical(t) ==
    \E ph \in HistSortChoices(datos_bancarios) :
        t = cargar_datos_historicos(datos_bancarios, ph).ret

\* t is a table generar_datos returns on the day of the last run
IsSynthetic(t) == \E d \in RandomDraws : t = generar_datos(run_today, d)

\* t is a table load_and_process_bank_statement returns for the file f, or
\* a historical table when that table is empty
IsStatementOrHistorical(f, t) ==
    \E c \in {"ok", "raise"}, w \in {"ok", "raise"} :
    \E p \in LoadSortChoices(f, [CalmEnv EXCEPT !.camelot = c, !.write = w]) :
    \E l \in {load_and_process_bank_statement(
                  f, [CalmEnv EXCEPT !.camelot = c, !.write = w], p)} :
        IF ~IsEmpty(l.ret) THEN t = l.ret ELSE IsHistorical(t)

\* t is a historical table that is not empty, or a synthetic table when the
\* historical table is empty
IsHistoricalOrSynthetic(t) ==
    \E ph \in HistSortChoices(datos_bancarios) :
    \E h \in {cargar_datos_historicos(datos_bancarios, ph).ret} :
        IF ~IsEmpty(h) THEN t = h ELSE IsSynthetic(t)

\* t is the dataset the data source and the uploaded file of ss stand for
IsDatasetOf(ss, t) ==
    IF ss.fuente_datos = "Nuevo extracto PDF" /\ ss.uploaded_file # None
    THEN IsStatementOrHistorical(ss.uploaded_file, t)
    ELSE IF ss.fuente_datos = "Histórico"
    THEN IsHistoricalOrSynthetic(t)
    ELSE IF ss.fuente_datos = "Datos de prueba 2024"
    THEN t = generar_datos_2024
    ELSE IsSynthetic(t)

\* C17: in every run that chooses a dataset, the dataset is the one of the
\* data source and the uploaded file the session held when the run began:
\* "Nuevo extracto PDF" with a file gives the table of the statement when it
\* is not empty and the historical table otherwise; "Histórico" gives the
\* historical table when it is not empty and the 30-day synthetic table
\* otherwise; "Datos de prueba 2024" gives the seeded series of 2024; every
\* other case gives the 30-day synthetic table.
C17_DatasetOfSession == Rendered => IsDatasetOf(session_start, df_source)

\* the statement of the session gave no rows and the historical table was
\* taken in its place
C17_Witness ==
    /\ Rendered
    /\ session_start.fuente_datos = "Nuevo extracto PDF"
    /\ session_start.uploaded_file # None
    /\ IsEmpty(df_pdf)
    /\ ~IsEmpty(df_source)
    /\ df_source = combined_df

\* C18 as stated: the dataset of every run is the one of the data source and
\* the uploaded file selected in the sidebar in that same run.
C18_AsStated == Rendered => IsDatasetOf(session_state, df_source)

\* a run leaves the session's uploaded file as it was unless the uploader
\* holds a file, which it then stores; a file once stored is never lost
StickyUpload ==
    /\ session_state'.uploaded_file # session_state.uploaded_file =>
           /\ widgets'.uploaded_file # None
           /\ session_state'.uploaded_file = widgets'.uploaded_file
    /\ session_state.uploaded_file # None => session_state'.uploaded_file # None

\* C19: the session's uploaded file starts as None; a run changes it only
\* when the uploader holds a file, which it then stores, and once it is not
\* None no run makes it None again (a run whose uploader holds no file leaves
\* it as it was); every run leaves in the session's data source the value the
\* radio holds.
C19_Sticky ==
    /\ session_state.uploaded_file = None
    /\ session_state.fuente_datos = "Histórico"
    /\ [][/\ StickyUpload
          /\ session_state'.fuente_datos = widgets'.fuente_datos
          /\ (raised' = "none" /\ widgets'.uploaded_file # None) =>
                 session_state'.uploaded_file = widgets'.uploaded_file]_vars

\* the user has removed the file from the uploader and the session still
\* holds it
C19_Witness ==
    /\ Rendered
    /\ widgets.uploaded_file = None
    /\ session_state.uploaded_file # None
    /\ session_state.fuente_datos = "Simulado"

----------------------------------------------------------------------------
(* SpecFilter: the period filter on a unified dataset *)

\* a row of a unified dataset dated f
FilterRow(f) ==
    [c \in Range(columnas_requeridas) |-> IF c = "Fecha" THEN f ELSE 0]

\* one date in every month of 2024, one of another year, and no date
FilterFechas ==
    {20240000 + m * 100 + 15 : m \in 1..12} \cup {20231231, 20250101, NaT}

\* the datasets of k rows, sorted by Fecha as line 466 leaves them
FilterTables(k) ==
    {[columns |-> columnas_requeridas,
      index   |-> [i \in 1..k |-> i - 1],
      rows    |-> [i \in 1..k |-> FilterRow(fs[i])]] :
        fs \in {gs \in [1..k -> FilterFechas] :
                  \A i \in 1..(k - 1) : DateLeq(gs[i], gs[i + 1])}}

InitFilter ==
    /\ pc = "rendering"
    /\ \E k \in 0..MaxRows : df_dashboard \in FilterTables(k)
    /\ run_today \in Todays
    /\ periodo = NoPeriodo
    /\ df_filtrado = EmptyDF
    /\ session_state = SessionDefaults
    /\ widgets = WidgetDefaults
    /\ session_start = SessionDefaults
    /\ tmp_file = "none"
    /\ df_source = EmptyDF
    /\ df_pdf = EmptyDF
    /\ extracto_mes = NoMes
    /\ raw_df = EmptyDF
    /\ raw_before = EmptyDF
    /\ processed_data = EmptyDF
    /\ discrepancies = EmptyDF
    /\ st_log = << >>
    /\ raised = "none"
    /\ df = EmptyDF
    /\ perturbed = 0
    /\ datos_bancarios = NoDirectory
    /\ combined_df = EmptyDF

\* lines 493-546: the period widgets are read and the dataset is filtered
Filtrar ==
    /\ pc = "rendering"
    /\ \E c \in PeriodChoices, a \in Anios(run_today) :
          /\ periodo' = WithAnio(c, a)
          /\ df_filtrado' = Filtrado(df_dashboard, WithAnio(c, a))
    /\ pc' = "filtered"
    /\ UNCHANGED <<raw_df, processed_data, discrepancies, st_log, raw_before, raised,
                   df, perturbed, datos_bancarios, combined_df, session_state, widgets,
                   df_dashboard, tmp_file, session_start, df_source, df_pdf,
                   extracto_mes, run_today>>

NextFilter == Filtrar

SpecFilter == InitFilter /\ [][NextFilter]_vars

\* the period choice with the selected year
OfYear(c) == WithAnio(c, periodo.anio_seleccionado)

\* the labels of the rows of the dataset the choice c selects in the selected year
Selected(c) == Range(Filtrado(df_dashboard, OfYear(c)).index)

\* the labels selected by month m, quarter q, semester h and the whole year
OfMes(m) ==
    Selected([periodo_opcion |-> "Mes", mes_seleccionado |-> meses[m],
              trimestre_seleccionado |-> Unselected, semestre_seleccionado |-> Unselected])

OfTrimestre(q) ==
    Selected([periodo_opcion |-> "Trimestre", mes_seleccionado |-> Unselected,
              trimestre_seleccionado |-> trimestres[q], semestre_seleccionado |-> Unselected])

OfSemestre(h) ==
    Selected([periodo_opcion |-> "Semestre", mes_seleccionado |-> Unselected,
              trimestre_seleccionado |-> Unselected, semestre_seleccionado |-> semestres[h]])

OfAnioCompleto ==
    Selected([periodo_opcion |-> "Año completo", mes_seleccionado |-> Unselected,
              trimestre_seleccionado |-> Unselected, semestre_seleccionado |-> Unselected])

\* the labels of the rows of the dataset dated in the selected year
InSelectedYear ==
    {df_dashboard.index[i] : i \in {j \in 1..Len(df_dashboard.rows) :
        /\ df_dashboard.rows[j]["Fecha"] # NaT
        /\ df_dashboard.rows[j]["Fecha"] \div 10000 = periodo.anio_seleccionado}}

\* C20: for the dataset and the selected year, the rows of the four quarters
\* are pairwise disjoint and together are the rows of "Año completo"; the rows
\* of each semester are those of its two quarters; the rows of every month lie
\* in one quarter and in no other; a row of another year or without a date is
\* selected by no filter; and the filter applied returns rows of the dataset
\* unaltered.
C20_PeriodsConsistent ==
    pc = "filtered" =>
        /\ \A q, r \in 1..4 : q < r => OfTrimestre(q) \cap OfTrimestre(r) = {}
        /\ UNION {OfTrimestre(q) : q \in 1..4} = OfAnioCompleto
        /\ OfSemestre(1) = OfTrimestre(1) \cup OfTrimestre(2)
        /\ OfSemestre(2) = OfTrimestre(3) \cup OfTrimestre(4)
        /\ \A m \in 1..12 :
              OfMes(m) # {} =>
                 Cardinality({q \in 1..4 : OfMes(m) \subseteq OfTrimestre(q)}) = 1
        /\ OfAnioCompleto = InSelectedYear
        /\ \A c \in PeriodChoices : Selected(c) \subseteq InSelectedYear
        /\ Range(df_filtrado.index) = Selected(periodo)
        /\ \A i \in 1..Len(df_filtrado.rows) : \E j \in 1..Len(df_dashboard.rows) :
              /\ df_dashboard.index[j] = df_filtrado.index[i]
              /\ df_dashboard.rows[j] = df_filtrado.rows[i]

\* a dataset with a row of March and a row of April of the selected year,
\* filtered by the second quarter: the row of April alone is selected
C20_Witness ==
    /\ pc = "filtered"
    /\ periodo.trimestre_seleccionado = "2do Trimestre"
    /\ Len(df_dashboard.rows) = 2
    /\ df_dashboard.rows[1]["Fecha"] = 20240315
    /\ df_dashboard.rows[2]["Fecha"] = 20240415
    /\ periodo.anio_seleccionado = 2024
    /\ Len(df_filtrado.rows) = 1
    /\ df_filtrado.rows[1]["Fecha"] = 20240415

\* a row of another year and a row without a date, filtered by the whole
\* year: nothing is selected
C20_WitnessOther ==
    /\ pc = "filtered"
    /\ periodo.periodo_opcion = "Año completo"
    /\ periodo.anio_seleccionado = 2024
    /\ Len(df_dashboard.rows) = 2
    /\ df_dashboard.rows[1]["Fecha"] = 20231231
    /\ df_dashboard.rows[2]["Fecha"] = NaT
    /\ Len(df_filtrado.rows) = 0

====
